---- MODULE Spec2Model ----
(***************************************************************************)
(* Transactional UTXO-set engine of chain/src/txhashset/txhashset.rs:      *)
(* seven data MMRs plus the header MMR, the output-position index kept in  *)
(* database batches, the bitmap accumulator, the Extension operations      *)
(* apply_block / rewind and the scoped drivers extending,                  *)
(* extending_readonly, header_extending, utxo_view and                     *)
(* rewindable_kernel_view.                                                 *)
(***************************************************************************)
EXTENDS Integers, Sequences, FiniteSets, TLC

(***************************************************************************)
(* Bounds of the model.                                                    *)
(***************************************************************************)
\* blocks the chain store may hold besides genesis
MaxBlocks == 2
\* operations one closure may perform before it returns
MaxOps == 2
\* injected I/O failures (child_batch.commit / backend.sync returning Err)
MaxFail == 1
\* leaves the header MMR may hold
MaxHeaders == 2
\* driver calls that reach their closure
MaxCalls == 3
\* bits per bitmap chunk (BitmapChunk::LEN_BITS, scaled down)
ChunkBits == 2
\* the largest u64 (u64::MAX, scaled down)
MaxU64 == 7

(***************************************************************************)
(* The MMRs.                                                               *)
(***************************************************************************)
DataMMRs ==
  <<"output", "rproof", "kernel",
    "token_output", "token_rproof", "token_issue_proof", "token_kernel">>

DataSet == {DataMMRs[i] : i \in 1..Len(DataMMRs)}

AllMMRs == DataSet \cup {"header"}

\* PMMRHandle::new(.., prunable, ..) as called by TxHashSet::open
Prunable(m) == m \in {"output", "rproof", "token_output", "token_rproof"}

(***************************************************************************)
(* core::pmmr position arithmetic.                                         *)
(***************************************************************************)
RECURSIVE Pop(_)
Pop(n) == IF n <= 0 THEN 0 ELSE (n % 2) + Pop(n \div 2)

\* size of an MMR holding n leaves
SizeOf(n) == 2 * n - Pop(n)

\* pmmr::insertion_to_pmmr_index: position of the k-th inserted leaf (k >= 1)
insertion_to_pmmr_index(k) == SizeOf(k - 1) + 1

\* pmmr::n_leaves: leaves of the smallest MMR that covers position pos
LeavesFor(pos) ==
  CHOOSE n \in 0..pos : SizeOf(n) >= pos /\ (n = 0 \/ SizeOf(n - 1) < pos)

\* positions any file of the model can reach
MaxPos == 4 * (MaxCalls + 1) * (MaxOps + 1) + 2 * MaxHeaders

LeavesTable == [pos \in 0..MaxPos |-> LeavesFor(pos)]

n_leaves(pos) == IF pos \in 0..MaxPos THEN LeavesTable[pos] ELSE LeavesFor(pos)

\* pmmr::is_leaf
is_leaf(pos) == pos >= 1 /\ insertion_to_pmmr_index(n_leaves(pos)) = pos

\* pmmr::bintree_rightmost: the last leaf at or below a valid size
bintree_rightmost(pos) ==
  IF pos = 0 THEN 0 ELSE insertion_to_pmmr_index(n_leaves(pos))

Min(a, b) == IF a < b THEN a ELSE b

SetMin(S) == CHOOSE x \in S : \A y \in S : x <= y

SetMax(S) == CHOOSE x \in S : \A y \in S : x >= y

(***************************************************************************)
(* PMMRBackend and the PMMR view over it.  A backend is the data file      *)
(* (leaf payloads in insertion order; pruning never shortens it) and, for  *)
(* a prunable backend, the leaf set of unpruned positions.                 *)
(***************************************************************************)
\* data: the payloads by leaf number; leaf_set: the unpruned leaf positions;
\* pruned: the leaf positions compaction has removed from the files
EmptyBackend == [data |-> <<>>, leaf_set |-> {}, pruned |-> {}]

NoData == [some |-> FALSE, v |-> 0]

Some(x) == [some |-> TRUE, v |-> x]

\* Backend::get_data behind PMMR::get_data (view bounded by last_pos lp)
get_data(m, b, lp, pos) ==
  IF pos > lp \/ ~is_leaf(pos) THEN NoData
  ELSE IF pos \in b.pruned THEN NoData
  ELSE IF Prunable(m) /\ pos \notin b.leaf_set THEN NoData
  ELSE IF n_leaves(pos) <= Len(b.data) THEN Some(b.data[n_leaves(pos)])
  ELSE NoData

\* PMMR::push: [b, lp, pos] after appending payload x to the view at lp
push(m, b, lp, x) ==
  [b |-> [data |-> Append(b.data, x),
          leaf_set |-> IF Prunable(m)
                       THEN b.leaf_set \cup {insertion_to_pmmr_index(Len(b.data) + 1)}
                       ELSE b.leaf_set,
          pruned |-> b.pruned],
   lp |-> SizeOf(n_leaves(lp) + 1),
   pos |-> lp + 1]

\* Backend::get_hash as used by PMMR::prune
has_hash(m, b, pos) ==
  /\ (Prunable(m) /\ is_leaf(pos)) => pos \in b.leaf_set
  /\ pos \notin b.pruned
  /\ n_leaves(pos) <= Len(b.data)

\* PMMR::prune: "err" when pos is no leaf, "false" when already pruned
prune(m, b, pos) ==
  IF ~is_leaf(pos) THEN [b |-> b, r |-> "err"]
  ELSE IF ~has_hash(m, b, pos) THEN [b |-> b, r |-> "false"]
  ELSE [b |-> [b EXCEPT !.leaf_set = @ \ {pos}], r |-> "true"]

\* PMMR::rewind(position, rewind_rm_pos)
rewind(m, b, position, rm) ==
  LET pos == SizeOf(n_leaves(position))
  IN [b |-> [data |-> SubSeq(b.data, 1, Min(Len(b.data), n_leaves(pos))),
             leaf_set |-> IF Prunable(m)
                          THEN {p \in b.leaf_set : p <= pos} \cup rm
                          ELSE b.leaf_set,
             pruned |-> b.pruned],
      lp |-> pos]

\* Backend::check_compact(cutoff_pos, rewind_rm_pos): the leaves at or below the
\* cutoff that are pruned and that no rewind would bring back leave the files
check_compact(b, cutoff_pos, rewind_rm_pos) ==
  [b EXCEPT !.pruned = @ \cup {p \in 1..Min(cutoff_pos, SizeOf(Len(b.data))) :
                                 /\ is_leaf(p)
                                 /\ p \notin b.leaf_set
                                 /\ p \notin rewind_rm_pos}]

\* PMMR::root of the view at lp: the hashes of the leaves at or below lp
root(b, lp) == SubSeq(b.data, 1, Min(Len(b.data), n_leaves(lp)))

\* Backend::leaf_idx_iter(from_idx)
leaf_idx_iter(b, from_idx) ==
  {n_leaves(p) - 1 : p \in {q \in b.leaf_set : q >= insertion_to_pmmr_index(from_idx + 1)}}

(***************************************************************************)
(* BitmapAccumulator: a sequence of chunks, each the set of bits set.      *)
(***************************************************************************)
chunk_start_idx(idx) == idx - (idx % ChunkBits)

chunk_idx(idx) == idx \div ChunkBits

\* BitmapAccumulator::apply_from: the chunks appended from chunk ci on
ChunksFrom(ci, idx, size) ==
  LET S == {i \in idx : i < size /\ i >= ci * ChunkBits}
  IN IF S = {} THEN <<>>
     ELSE [k \in 1..(chunk_idx(SetMax(S)) - ci + 1) |->
             {i % ChunkBits : i \in {j \in S : chunk_idx(j) = ci + k - 1}}]

\* BitmapAccumulator::apply(invalidated_idx, idx, size)
AccApply(acc, invalidated, idx, size) ==
  IF invalidated = {} THEN acc
  ELSE LET ci == chunk_idx(SetMin(invalidated))
           kept == SubSeq(acc, 1, Min(Len(acc), ci))
           padded == kept \o [k \in 1..(ci - Len(kept)) |-> {}]
       IN padded \o ChunksFrom(ci, idx, size)

\* BitmapAccumulator::init
AccInit(idx, size) == ChunksFrom(0, idx, size)

\* the bits set in an accumulator
AccBits(acc) ==
  UNION {{(c - 1) * ChunkBits + o : o \in acc[c]} : c \in 1..Len(acc)}

(***************************************************************************)
(* The chain store as seen through a database batch.  Blocks are named by  *)
(* their hash, here their index in the store; genesis is block 1.          *)
(***************************************************************************)
Put(f, k, v) == [x \in (DOMAIN f) \cup {k} |-> IF x = k THEN v ELSE f[x]]

Del(f, k) == [x \in (DOMAIN f) \ {k} |-> f[x]]

Genesis ==
  [height |-> 0, prev |-> 0,
   outputs |-> <<>>, inputs |-> <<>>,
   token_outputs |-> <<>>, token_inputs |-> <<>>,
   kernels |-> <<>>, token_kernels |-> <<>>,
   output_mmr_size |-> 0, kernel_mmr_size |-> 0,
   token_output_mmr_size |-> 0, token_issue_proof_mmr_size |-> 0,
   token_kernel_mmr_size |-> 0]

\* what is observable of an extension over backends be at sizes pos: the sizes,
\* the roots, the unpruned leaf positions and the accumulator
Observed(be, pos, acc) ==
  [pos |-> [m \in DataSet |-> pos[m]],
   roots |-> [m \in DataSet |-> root(be[m], pos[m])],
   leaves |-> [m \in DataSet |-> {p \in be[m].leaf_set : p <= pos[m]}],
   acc |-> acc]

\* the two output position indexes of a batch
Indexes(cb) == [output_pos |-> cb.output_pos, token_output_pos |-> cb.token_output_pos]

\* input_bitmap and token_input_bitmap are the legacy per-block input bitmaps;
\* snap is history: for each block, what an extension showed when the block was
\* applied; index_was is history: for each block, the indexes before it was applied
EmptyBatch ==
  [output_pos |-> <<>>, token_output_pos |-> <<>>,
   token_issue_proof_pos |-> <<>>,
   spent_index |-> <<>>, token_spent_index |-> <<>>,
   input_bitmap |-> <<>>, token_input_bitmap |-> <<>>,
   blocks |-> <<Genesis>>, head |-> 1,
   snap |-> <<Observed([m \in DataSet |-> EmptyBackend], [m \in DataSet |-> 0], <<>>)>>,
   index_was |-> <<[output_pos |-> <<>>, token_output_pos |-> <<>>]>>]

(***************************************************************************)
(* Extension.  The operations work on a record s of the state an           *)
(* Extension reaches: be (the borrowed backends), pos (the last_pos of     *)
(* each PMMR view), cb (the batch the closure was given), acc (the         *)
(* extension's bitmap accumulator) and head.  Each returns                 *)
(* [s, ok, err, val]: the state reached, also when it fails part-way.      *)
(***************************************************************************)
NoErr == [kind |-> "", c |-> 0]

Ok(s, v) == [s |-> s, ok |-> TRUE, err |-> NoErr, val |-> v]

Fail(s, kind, c) == [s |-> s, ok |-> FALSE, err |-> [kind |-> kind, c |-> c], val |-> 0]

\* a push that leaves the size of the MMR where it was
PushedBelowCursor(s, m, p) ==
  [s EXCEPT !.be[m] = p.b,
            !.log = Append(@, [op |-> "push", mmr |-> m, size |-> s.pos[m], pos |-> p.pos])]

\* the extension after the push p to MMR m; as history, the size before the push
\* and the position the push returned
Pushed(s, m, p) ==
  [s EXCEPT !.be[m] = p.b, !.pos[m] = p.lp,
            !.log = Append(@, [op |-> "push", mmr |-> m, size |-> s.pos[m], pos |-> p.pos])]

\* Extension::apply_output
apply_output(s, commit) ==
  LET dup == /\ commit \in DOMAIN s.cb.output_pos
             /\ LET Same(d) == d.some /\ d.v = commit
                IN Same(get_data("output", s.be["output"], s.pos["output"],
                                 s.cb.output_pos[commit].pos))
      Both(o, r) ==
        LET s2 == Pushed(Pushed(s, "output", o), "rproof", r)
        IN IF o.lp # r.lp THEN Fail(s2, "Other", 1)
           ELSE IF o.pos # r.pos THEN Fail(s2, "Other", 2)
           ELSE Ok(s2, o.pos)
  IN IF dup THEN Fail(s, "DuplicateCommitment", commit)
     ELSE Both(push("output", s.be["output"], s.pos["output"], commit),
               push("rproof", s.be["rproof"], s.pos["rproof"], commit))

\* apply_input that takes an output that is already pruned for spent now
apply_input_spends_pruned(s, commit) ==
  IF commit \notin DOMAIN s.cb.output_pos THEN Fail(s, "AlreadySpent", commit)
  ELSE LET cp == s.cb.output_pos[commit]
           Pruned(o, r) ==
             IF o.r \in {"true", "false"}
             THEN LET s2 == [s EXCEPT !.be["output"] = o.b, !.be["rproof"] = r.b]
                  IN IF r.r = "err" THEN Fail(s2, "TxHashSetErr", 0)
                     ELSE Ok(s2, cp)
             ELSE Fail(s, "TxHashSetErr", 0)
           Found(d) ==
             IF d.some /\ d.v # commit THEN Fail(s, "TxHashSetErr", 0)
             ELSE Pruned(prune("output", s.be["output"], cp.pos),
                         prune("rproof", s.be["rproof"], cp.pos))
       IN Found(get_data("output", s.be["output"], s.pos["output"], cp.pos))

\* Extension::apply_input
apply_input(s, commit) ==
  IF commit \notin DOMAIN s.cb.output_pos THEN Fail(s, "AlreadySpent", commit)
  ELSE LET cp == s.cb.output_pos[commit]
           Pruned(o, r) ==
             IF o.r = "true"
             THEN LET s2 == [s EXCEPT !.be["output"] = o.b, !.be["rproof"] = r.b]
                  IN IF r.r = "err" THEN Fail(s2, "TxHashSetErr", 0)
                     ELSE Ok(s2, cp)
             ELSE IF o.r = "false" THEN Fail(s, "AlreadySpent", commit)
             ELSE Fail(s, "TxHashSetErr", 0)
           Found(d) ==
             IF d.some /\ d.v # commit THEN Fail(s, "TxHashSetErr", 0)
             ELSE Pruned(prune("output", s.be["output"], cp.pos),
                         prune("rproof", s.be["rproof"], cp.pos))
       IN Found(get_data("output", s.be["output"], s.pos["output"], cp.pos))

\* Extension::apply_token_output
apply_token_output(s, out) ==
  LET dup == /\ out.commit \in DOMAIN s.cb.token_output_pos
             /\ LET Same(d) == d.some /\ d.v.commit = out.commit
                IN Same(get_data("token_output", s.be["token_output"],
                                 s.pos["token_output"],
                                 s.cb.token_output_pos[out.commit].pos))
      id == [commit |-> out.commit, token_type |-> out.token_type]
      Both(o, r) ==
        LET s2 == Pushed(Pushed(s, "token_output", o), "token_rproof", r)
        IN IF o.lp # r.lp THEN Fail(s2, "Other", 3)
           ELSE IF o.pos # r.pos THEN Fail(s2, "Other", 4)
           ELSE Ok(s2, o.pos)
  IN IF dup THEN Fail(s, "DuplicateCommitment", out.commit)
     ELSE Both(push("token_output", s.be["token_output"], s.pos["token_output"], id),
               push("token_rproof", s.be["token_rproof"], s.pos["token_rproof"],
                    out.commit))

\* Extension::apply_token_input
apply_token_input(s, inp) ==
  IF inp.commit \notin DOMAIN s.cb.token_output_pos
  THEN Fail(s, "AlreadySpent", inp.commit)
  ELSE LET cp == s.cb.token_output_pos[inp.commit]
           Pruned(o, r) ==
             IF o.r = "true"
             THEN LET s2 == [s EXCEPT !.be["token_output"] = o.b,
                                      !.be["token_rproof"] = r.b]
                  IN IF r.r = "err" THEN Fail(s2, "TxHashSetErr", 0)
                     ELSE Ok(s2, cp)
             ELSE IF o.r = "false" THEN Fail(s, "AlreadySpent", inp.commit)
             ELSE Fail(s, "TxHashSetErr", 0)
           Found(d) ==
             IF d.some /\ d.v # inp THEN Fail(s, "TxHashSetErr", 0)
             ELSE Pruned(prune("token_output", s.be["token_output"], cp.pos),
                         prune("token_rproof", s.be["token_rproof"], cp.pos))
       IN Found(get_data("token_output", s.be["token_output"], s.pos["token_output"],
                         cp.pos))

\* Extension::apply_token_issue_output
apply_token_issue_output(s, out) ==
  IF ~out.issue THEN Fail(s, "Other", 5)
  ELSE LET key == out.token_type
           dup == /\ key \in DOMAIN s.cb.token_issue_proof_pos
                  /\ LET Same(d) == d.some /\ d.v = key
                     IN Same(get_data("token_issue_proof", s.be["token_issue_proof"],
                                      s.pos["token_issue_proof"],
                                      s.cb.token_issue_proof_pos[key]))
           Issued(p) == Ok(Pushed(s, "token_issue_proof", p), p.pos)
       IN IF dup THEN Fail(s, "DuplicateTokenKey", key)
          ELSE Issued(push("token_issue_proof", s.be["token_issue_proof"],
                           s.pos["token_issue_proof"], key))

\* Extension::apply_kernel
apply_kernel(s, kernel) ==
  Ok(Pushed(s, "kernel", push("kernel", s.be["kernel"], s.pos["kernel"], kernel)), 0)

\* Extension::apply_token_kernel
apply_token_kernel(s, kernel) ==
  Ok(Pushed(s, "token_kernel",
            push("token_kernel", s.be["token_kernel"], s.pos["token_kernel"], kernel)), 0)

\* history: the extension state with this call logged
Step(s, name) == [s EXCEPT !.log = Append(@, [op |-> name])]

\* Extension::apply_to_bitmap_accumulator
apply_to_bitmap_accumulator(s, output_pos) ==
  LET output_idx == {IF n_leaves(output_pos[i]) = 0 THEN 0 ELSE n_leaves(output_pos[i]) - 1 :
                       i \in 1..Len(output_pos)}
      Applied(idx) ==
        [s EXCEPT !.acc =
           AccApply(s.acc, idx,
                    leaf_idx_iter(s.be["output"],
                                  chunk_start_idx(IF idx = {} THEN 0 ELSE SetMin(idx))),
                    n_leaves(s.pos["output"])),
                  !.log = Append(@, [op |-> "apply_to_bitmap_accumulator",
                                     output_pos |-> output_pos])]
  IN Applied(output_idx)

RECURSIVE ApplyOutputs(_, _, _, _)
\* Extension::apply_block, the loop over b.outputs(); val is affected_pos
ApplyOutputs(s, b, i, affected) ==
  IF i > Len(b.outputs) THEN Ok(s, affected)
  ELSE LET Then(r) ==
             IF ~r.ok THEN r
             ELSE ApplyOutputs(
                    [Step(r.s, "save_output_pos_height") EXCEPT !.cb.output_pos =
                       Put(@, b.outputs[i], [pos |-> r.val, height |-> b.height])],
                    b, i + 1, Append(affected, r.val))
       IN Then(apply_output(Step(s, "apply_output"), b.outputs[i]))

RECURSIVE ApplyInputsNewestFirst(_, _, _, _)
\* the loop over b.inputs() that puts each spent position in front of the list
ApplyInputsNewestFirst(s, b, i, spent) ==
  IF i > Len(b.inputs) THEN Ok(s, spent)
  ELSE LET Then(r) ==
             IF ~r.ok THEN r
             ELSE ApplyInputsNewestFirst([Step(r.s, "delete_output_pos_height")
                                          EXCEPT !.cb.output_pos = Del(@, b.inputs[i])],
                                         b, i + 1, <<r.val>> \o spent)
       IN Then(apply_input(Step(s, "apply_input"), b.inputs[i]))

RECURSIVE ApplyInputs(_, _, _, _)
\* Extension::apply_block, the loop over b.inputs(); val is the spent list
ApplyInputs(s, b, i, spent) ==
  IF i > Len(b.inputs) THEN Ok(s, spent)
  ELSE LET Then(r) ==
             IF ~r.ok THEN r
             ELSE ApplyInputs([Step(r.s, "delete_output_pos_height")
                               EXCEPT !.cb.output_pos = Del(@, b.inputs[i])],
                              b, i + 1, Append(spent, r.val))
       IN Then(apply_input(Step(s, "apply_input"), b.inputs[i]))

RECURSIVE ApplyTokenOutputs(_, _, _)
\* Extension::apply_block, the loop over b.token_outputs()
ApplyTokenOutputs(s, b, i) ==
  IF i > Len(b.token_outputs) THEN Ok(s, 0)
  ELSE LET out == b.token_outputs[i]
           Issued(q) ==
             IF ~q.ok THEN q
             ELSE ApplyTokenOutputs(
                    [Step(q.s, "save_token_issue_proof_pos")
                     EXCEPT !.cb.token_issue_proof_pos = Put(@, out.token_type, q.val)],
                    b, i + 1)
           Saved(s2) ==
             IF out.issue
             THEN Issued(apply_token_issue_output(Step(s2, "apply_token_issue_output"), out))
             ELSE ApplyTokenOutputs(s2, b, i + 1)
           Then(r) ==
             IF ~r.ok THEN r
             ELSE Saved([Step(r.s, "save_token_output_pos_height")
                         EXCEPT !.cb.token_output_pos =
                           Put(@, out.commit, [pos |-> r.val, height |-> b.height])])
       IN Then(apply_token_output(Step(s, "apply_token_output"), out))

RECURSIVE ApplyTokenInputs(_, _, _, _)
\* Extension::apply_block, the loop over b.token_inputs()
ApplyTokenInputs(s, b, i, spent) ==
  IF i > Len(b.token_inputs) THEN Ok(s, spent)
  ELSE LET Then(r) ==
             IF ~r.ok THEN r
             ELSE ApplyTokenInputs(
                    [Step(r.s, "delete_token_output_pos_height")
                     EXCEPT !.cb.token_output_pos = Del(@, b.token_inputs[i].commit)],
                    b, i + 1, Append(spent, r.val))
       IN Then(apply_token_input(Step(s, "apply_token_input"), b.token_inputs[i]))

RECURSIVE ApplyKernels(_, _, _)
\* Extension::apply_block, the loop over b.kernels()
ApplyKernels(s, b, i) ==
  IF i > Len(b.kernels) THEN Ok(s, 0)
  ELSE ApplyKernels(apply_kernel(Step(s, "apply_kernel"), b.kernels[i]).s, b, i + 1)

RECURSIVE ApplyTokenKernels(_, _, _)
\* Extension::apply_block, the loop over b.token_kernels()
ApplyTokenKernels(s, b, i) ==
  IF i > Len(b.token_kernels) THEN Ok(s, 0)
  ELSE ApplyTokenKernels(apply_token_kernel(Step(s, "apply_token_kernel"),
                                            b.token_kernels[i]).s, b, i + 1)

\* Extension::apply_block(b), b.hash() = hash
apply_block(s, b, hash) ==
  LET TokenInputs(u, affected) ==
        IF ~u.ok THEN u
        ELSE Ok([Step(apply_to_bitmap_accumulator(
                        ApplyTokenKernels(
                          ApplyKernels([Step(u.s, "save_spent_token_index")
                                        EXCEPT !.cb.token_spent_index = Put(@, hash, u.val)],
                                       b, 1).s,
                          b, 1).s,
                        affected), "head")
                 EXCEPT !.head = hash], 0)
      TokenOutputs(t, affected) ==
        IF ~t.ok THEN t
        ELSE TokenInputs(ApplyTokenInputs(t.s, b, 1, <<>>), affected)
      Inputs(i, affected_pos) ==
        IF ~i.ok THEN i
        ELSE TokenOutputs(
               ApplyTokenOutputs([Step(i.s, "save_spent_index")
                                  EXCEPT !.cb.spent_index = Put(@, hash, i.val)], b, 1),
               affected_pos \o [j \in 1..Len(i.val) |-> i.val[j].pos])
      Outputs(o) ==
        IF ~o.ok THEN o
        ELSE Inputs(ApplyInputs(o.s, b, 1, <<>>), o.val)
  IN Outputs(ApplyOutputs(s, b, 1, <<>>))

\* Extension::rewind_mmrs_to_pos
rewind_mmrs_to_pos(s, output_pos, kernel_pos, token_output_pos, token_issue_proof_pos, token_kernel_pos, spent_pos, token_spent_pos) ==
  LET to == [m \in DataSet |->
               CASE m \in {"output", "rproof"} -> output_pos
                 [] m = "kernel" -> kernel_pos
                 [] m \in {"token_output", "token_rproof"} -> token_output_pos
                 [] m = "token_issue_proof" -> token_issue_proof_pos
                 [] OTHER -> token_kernel_pos]
      rm == [m \in DataSet |->
               CASE m \in {"output", "rproof"} -> spent_pos
                 [] m \in {"token_output", "token_rproof"} -> token_spent_pos
                 [] OTHER -> {}]
      r == [m \in DataSet |-> rewind(m, s.be[m], to[m], rm[m])]
  IN [s EXCEPT !.be = [m \in DOMAIN s.be |-> IF m \in DataSet THEN r[m].b ELSE s.be[m]],
               !.pos = [m \in DOMAIN s.pos |-> IF m \in DataSet THEN r[m].lp ELSE s.pos[m]]]

PosOf(list) == [k \in 1..Len(list) |-> list[k].pos]

SeqRange(q) == {q[k] : k \in 1..Len(q)}

\* Bitmap::iter: the elements of a bitmap in increasing order
Ascending(bitmap) ==
  [i \in 1..Cardinality(bitmap) |->
     CHOOSE q \in bitmap : Cardinality({r \in bitmap : r < q}) = i - 1]

\* Batch::get_block_input_bitmap and get_block_token_input_bitmap: the legacy
\* bitmap the store holds for block x, Err when it holds none
get_block_input_bitmap(bitmaps, x) ==
  IF x \in DOMAIN bitmaps THEN [ok |-> TRUE, val |-> bitmaps[x]]
  ELSE [ok |-> FALSE, val |-> {}]

\* a fallback that takes a missing legacy bitmap for an empty one
SpentPosOrEmpty(index, bitmaps, hash) ==
  IF hash \in DOMAIN index THEN [ok |-> TRUE, val |-> PosOf(index[hash])]
  ELSE [ok |-> TRUE, val |-> Ascending(get_block_input_bitmap(bitmaps, hash).val)]

\* rewind_single_block, spent_pos and token_spent_pos: the positions of the spent
\* index of the block or, without a spent index, those of its legacy input bitmap,
\* whose Err is returned
SpentPos(index, bitmaps, hash) ==
  IF hash \in DOMAIN index THEN [ok |-> TRUE, val |-> PosOf(index[hash])]
  ELSE [ok |-> get_block_input_bitmap(bitmaps, hash).ok,
        val |-> Ascending(get_block_input_bitmap(bitmaps, hash).val)]

RECURSIVE DeleteAll(_, _, _)
\* delete the index entries of the commitments keys[i..]
DeleteAll(f, keys, i) ==
  IF i > Len(keys) THEN f ELSE DeleteAll(Del(f, keys[i]), keys, i + 1)

RECURSIVE SaveZip(_, _, _, _)
\* save_output_pos_height for each pair of inputs().zip(spent)
SaveZip(f, keys, spent, i) ==
  IF i > Len(keys) \/ i > Len(spent) THEN f
  ELSE SaveZip(Put(f, keys[i], spent[i]), keys, spent, i + 1)

\* Extension::rewind_single_block(header), header.hash() = hash; val is affected_pos
rewind_single_block(s, hash) ==
  LET header == s.cb.blocks[hash]
      has_spent == hash \in DOMAIN s.cb.spent_index
      has_token_spent == hash \in DOMAIN s.cb.token_spent_index
      found == SpentPos(s.cb.spent_index, s.cb.input_bitmap, hash)
      token_found == SpentPos(s.cb.token_spent_index, s.cb.token_input_bitmap, hash)
      Warned(s0, legacy, what) ==
        IF legacy THEN [s0 EXCEPT !.log = Append(@, [op |-> "warn", what |-> what])] ELSE s0
  IN IF ~found.ok THEN Fail(Warned(s, TRUE, "input bitmap"), "StoreErr", 0)
     ELSE IF ~token_found.ok
     THEN Fail(Warned(Warned(s, ~has_spent, "input bitmap"), TRUE, "token input bitmap"),
               "StoreErr", 0)
     ELSE
  LET spent == IF has_spent THEN s.cb.spent_index[hash] ELSE <<>>
      token_spent == IF has_token_spent THEN s.cb.token_spent_index[hash] ELSE <<>>
      spent_pos == found.val
      token_spent_pos == token_found.val
      prev == s.cb.blocks[header.prev]
      block == header
      Rewound(s1) ==
        Ok([s1 EXCEPT
              !.cb.output_pos =
                 SaveZip(DeleteAll(@, block.outputs, 1), block.inputs, spent, 1),
              !.cb.token_output_pos =
                 SaveZip(DeleteAll(@, [k \in 1..Len(block.token_outputs) |->
                                         block.token_outputs[k].commit], 1),
                         [k \in 1..Len(block.token_inputs) |-> block.token_inputs[k].commit],
                         token_spent, 1),
              !.log = Append(@, [op |-> "rewind_single_block", header |-> hash])],
           Append(spent_pos, s1.pos["output"]))
      warned == Warned(Warned(s, ~has_spent, "input bitmap"), ~has_token_spent,
                       "token input bitmap")
  IN IF header.height = 0
     THEN Rewound(rewind_mmrs_to_pos(warned, 0, 0, 0, 0, 0,
                                     SeqRange(spent_pos), SeqRange(token_spent_pos)))
     ELSE Rewound(rewind_mmrs_to_pos(warned, prev.output_mmr_size, prev.kernel_mmr_size,
                                     prev.token_output_mmr_size,
                                     prev.token_issue_proof_mmr_size,
                                     prev.token_kernel_mmr_size,
                                     SeqRange(spent_pos), SeqRange(token_spent_pos)))

RECURSIVE RewindBlocks(_, _, _, _)
\* Extension::rewind, the loop from the head down to the target header
RewindBlocks(s, target, current, affected) ==
  IF ~(s.cb.blocks[target].height < s.cb.blocks[current].height) THEN Ok(s, affected)
  ELSE LET Then(r) ==
             IF ~r.ok THEN r
             ELSE RewindBlocks(r.s, target, s.cb.blocks[current].prev, affected \o r.val)
       IN Then(rewind_single_block(s, current))

\* Extension::rewind that leaves the head where it was
ext_rewind_keeps_head(s, target) ==
  LET header == s.cb.blocks[target]
      head_header == s.cb.blocks[s.head]
  IN IF head_header.height <= header.height
     THEN Ok(apply_to_bitmap_accumulator(
                rewind_mmrs_to_pos(s, header.output_mmr_size, header.kernel_mmr_size,
                                   header.token_output_mmr_size,
                                   header.token_issue_proof_mmr_size,
                                   header.token_kernel_mmr_size, {}, {}),
                <<header.output_mmr_size>>), 0)
     ELSE LET Then(r) ==
                IF ~r.ok THEN r
                ELSE Ok(apply_to_bitmap_accumulator(r.s, r.val), 0)
          IN Then(RewindBlocks(s, target, s.head, <<>>))

\* Extension::rewind that assigns the head before it rewinds the blocks
ext_rewind_head_first(s, target) ==
  LET header == s.cb.blocks[target]
      head_header == s.cb.blocks[s.head]
  IN IF head_header.height <= header.height
     THEN Ok([apply_to_bitmap_accumulator(
                rewind_mmrs_to_pos(s, header.output_mmr_size, header.kernel_mmr_size,
                                   header.token_output_mmr_size,
                                   header.token_issue_proof_mmr_size,
                                   header.token_kernel_mmr_size, {}, {}),
                <<header.output_mmr_size>>)
              EXCEPT !.head = target], 0)
     ELSE LET Then(r) ==
                IF ~r.ok THEN [r EXCEPT !.s.head = target]
                ELSE Ok([apply_to_bitmap_accumulator(r.s, r.val) EXCEPT !.head = target], 0)
          IN Then(RewindBlocks(s, target, s.head, <<>>))

\* Extension::rewind(header), header.hash() = target
ext_rewind(s, target) ==
  LET header == s.cb.blocks[target]
      head_header == s.cb.blocks[s.head]
  IN IF head_header.height <= header.height
     THEN Ok([apply_to_bitmap_accumulator(
                rewind_mmrs_to_pos(s, header.output_mmr_size, header.kernel_mmr_size,
                                   header.token_output_mmr_size,
                                   header.token_issue_proof_mmr_size,
                                   header.token_kernel_mmr_size, {}, {}),
                <<header.output_mmr_size>>)
              EXCEPT !.head = target], 0)
     ELSE LET Then(r) ==
                IF ~r.ok THEN r
                ELSE Ok([apply_to_bitmap_accumulator(r.s, r.val) EXCEPT !.head = target], 0)
          IN Then(RewindBlocks(s, target, s.head, <<>>))

\* Extension::sizes
sizes(s) == [m \in DataSet |-> s.pos[m]]

\* Extension::validate_sizes that compares each size of the header once
validate_sizes_unpaired(s, header) ==
  IF header.height = 0 THEN Ok(s, 0)
  ELSE IF \/ header.output_mmr_size # s.pos["output"]
          \/ header.kernel_mmr_size # s.pos["kernel"]
          \/ header.token_output_mmr_size # s.pos["token_output"]
          \/ header.token_issue_proof_mmr_size # s.pos["token_issue_proof"]
          \/ header.token_kernel_mmr_size # s.pos["token_kernel"]
  THEN Fail(s, "InvalidMMRSize", 0)
  ELSE Ok(s, 0)

\* Extension::validate_sizes(header)
validate_sizes(s, header) ==
  IF header.height = 0 THEN Ok(s, 0)
  ELSE IF [m \in DataSet |->
             CASE m \in {"output", "rproof"} -> header.output_mmr_size
               [] m = "kernel" -> header.kernel_mmr_size
               [] m \in {"token_output", "token_rproof"} -> header.token_output_mmr_size
               [] m = "token_issue_proof" -> header.token_issue_proof_mmr_size
               [] OTHER -> header.token_kernel_mmr_size] # sizes(s)
  THEN Fail(s, "InvalidMMRSize", 0)
  ELSE Ok(s, 0)

\* HeaderExtension::apply_header(header), header.hash() = hash
apply_header(s, hash) ==
  LET p == push("header", s.be["header"], s.hpos, hash)
  IN Ok([s EXCEPT !.be["header"] = p.b, !.hpos = p.lp, !.hhead = hash], 0)

\* HeaderExtension::rewind(header), header.hash() = hash
header_rewind(s, hash) ==
  LET header_pos == insertion_to_pmmr_index(s.cb.blocks[hash].height + 1)
      r == rewind("header", s.be["header"], header_pos, {})
  IN Ok([s EXCEPT !.be["header"] = r.b, !.hpos = r.lp, !.hhead = hash], 0)

(***************************************************************************)
(* State.                                                                  *)
(***************************************************************************)
VARIABLES
  backend,             \* each PMMRHandle.backend as the process sees it (buffers included)
  disk,                \* each backend as last synced to its files
  last_pos,            \* each PMMRHandle.last_pos
  bitmap_accumulator,  \* TxHashSet.bitmap_accumulator
  batch,               \* the database batch handed to the drivers
  child_batch,         \* the batch handed to the closure
  ext,                 \* the Extension and HeaderExtension of the running driver
  pc,                  \* position of the running driver
  driver,              \* the running driver, or the one that returned last
  nops,                \* operations the closure has performed
  res,                 \* the closure's last operation and its result
  ret,                 \* what the last driver call returned
  fails,               \* I/O failures injected so far
  calls,               \* driver calls that have reached their closure
  pre,                 \* history: persistent state when the driver was called
  committed,           \* history: child_batch.commit() of the driver has returned Ok
  synced,              \* history: backends whose sync() has returned Ok in the driver
  done                 \* history: what the closure of the last driver call did

vars ==
  <<backend, disk, last_pos, bitmap_accumulator, batch, child_batch, ext, pc, driver,
    nops, res, ret, fails, calls, pre, committed, synced, done>>

\* applied and clean are history: the apply_block calls that returned Ok, and
\* whether the closure has done nothing else
NoExt ==
  [pos |-> [m \in DataSet |-> 0], hpos |-> 0, head |-> 0, hhead |-> 0,
   acc |-> <<>>, rollback |-> FALSE, hrollback |-> FALSE, applied |-> 0, clean |-> TRUE]

\* history: op names the operation, log its call and the calls a rewind made, val
\* what a validate returned,
\* dup and tdup the output and the token output
\* commitment that an apply_block met as a duplicate
NoRes ==
  [ok |-> TRUE, err |-> NoErr, op |-> "", dup |-> 0, tdup |-> 0, gone |-> 0, tkey |-> 0,
   log |-> <<>>, val |-> 0]

NoRet == [ok |-> TRUE, err |-> NoErr]

Snapshot ==
  [backend |-> backend, disk |-> disk, last_pos |-> last_pos,
   bitmap_accumulator |-> bitmap_accumulator, batch |-> batch]

\* the operation whose Err a closure returned, with that Err
NoFailure == [op |-> "", err |-> NoErr]

NoDone ==
  [closure_ok |-> TRUE, rollback |-> FALSE, applied |-> 0, clean |-> FALSE,
   validated |-> FALSE, sizes |-> [m \in DataSet |-> 0], acc |-> <<>>,
   failed |-> NoFailure, removed |-> 0, added |-> 0, before |-> [name |-> "", ok |-> FALSE],
   arg |-> 0, hsize |-> 0, hrollback |-> FALSE, saved |-> <<>>]

\* the header MMR files once the genesis header has been stored
GenesisHeaders == [data |-> <<1>>, leaf_set |-> {}, pruned |-> {}]

\* TxHashSet::open and PMMRHandle::new with the chain store at genesis: on empty
\* directories, or on the files of a chain whose header MMR holds the genesis header
Init ==
  /\ \E h \in {EmptyBackend, GenesisHeaders} :
       /\ backend = [m \in AllMMRs |-> IF m = "header" THEN h ELSE EmptyBackend]
       /\ disk = backend
       /\ last_pos = [m \in AllMMRs |-> IF m = "header" THEN SizeOf(Len(h.data)) ELSE 0]
  /\ bitmap_accumulator = <<>>
  /\ batch = EmptyBatch
  /\ child_batch = EmptyBatch
  /\ ext = NoExt
  /\ pc = "idle"
  /\ driver = "none"
  /\ nops = 0
  /\ res = NoRes
  /\ ret = NoRet
  /\ fails = 0
  /\ calls = 0
  /\ pre = Snapshot
  /\ committed = FALSE
  /\ synced = {}
  /\ done = NoDone

\* the state the Extension and HeaderExtension operations work on
S ==
  [be |-> backend, pos |-> ext.pos, hpos |-> ext.hpos, hhead |-> ext.hhead,
   cb |-> child_batch, acc |-> ext.acc, head |-> ext.head, log |-> <<>>]

\* the variables after an operation that reached state s; counted tells whether it
\* was an apply_block that returned Ok
Reached(s, counted) ==
  /\ backend' = s.be
  /\ child_batch' = s.cb
  /\ ext' = [ext EXCEPT !.pos = s.pos, !.hpos = s.hpos, !.hhead = s.hhead,
                        !.acc = s.acc, !.head = s.head,
                        !.applied = IF counted THEN @ + 1 ELSE @,
                        !.clean = @ /\ counted]

\* PMMRHandle::head_hash
head_hash ==
  IF last_pos["header"] = 0 THEN [ok |-> FALSE, hash |-> 0]
  ELSE LET d == get_data("header", backend["header"], last_pos["header"],
                         bintree_rightmost(last_pos["header"]))
       IN IF d.some THEN [ok |-> TRUE, hash |-> d.v] ELSE [ok |-> FALSE, hash |-> 0]

StartDriver(name, hhead) ==
  /\ calls < MaxCalls
  /\ calls' = calls + 1
  /\ child_batch' = batch
  /\ ext' = [NoExt EXCEPT !.pos = [m \in DataSet |-> last_pos[m]],
                          !.hpos = last_pos["header"],
                          !.head = batch.head, !.hhead = hhead,
                          !.acc = bitmap_accumulator]
  /\ pc' = "closure"
  /\ driver' = name
  /\ nops' = 0
  /\ res' = NoRes
  /\ ret' = NoRet
  /\ pre' = Snapshot
  /\ committed' = FALSE
  /\ synced' = {}
  /\ done' = NoDone
  /\ UNCHANGED <<backend, disk, last_pos, bitmap_accumulator, batch, fails>>

\* the driver returns r; d records what its closure did
Returned(r, d) ==
  /\ ret' = r
  /\ done' = d
  /\ pc' = "idle"
  /\ ext' = NoExt
  /\ child_batch' = EmptyBatch
  /\ nops' = 0
  /\ res' = NoRes
  /\ UNCHANGED driver

\* a driver that fails before it creates its views and calls the closure
FailEarly(name, kind) ==
  /\ ret' = [ok |-> FALSE, err |-> [kind |-> kind, c |-> 0]]
  /\ driver' = name
  /\ pre' = Snapshot
  /\ committed' = FALSE
  /\ synced' = {}
  /\ done' = NoDone
  /\ UNCHANGED <<backend, disk, last_pos, bitmap_accumulator, batch, child_batch, ext,
                 pc, nops, res, fails, calls>>

\* extending that takes Tip::default() as header head when head_hash returns Err,
\* as header_extending does
ExtendingBeginWithDefaultTip ==
  /\ pc = "idle"
  /\ StartDriver("extending", IF head_hash.ok THEN head_hash.hash ELSE 0)

\* extending, up to the call of the closure
ExtendingBegin ==
  /\ pc = "idle"
  /\ IF head_hash.ok THEN StartDriver("extending", head_hash.hash)
     ELSE FailEarly("extending", "Other")

\* extending_readonly, up to the call of the closure
ExtendingReadonlyBegin ==
  /\ pc = "idle"
  /\ IF head_hash.ok THEN StartDriver("extending_readonly", head_hash.hash)
     ELSE FailEarly("extending_readonly", "Other")

\* header_extending, up to the call of the closure
HeaderExtendingBegin ==
  /\ pc = "idle"
  /\ StartDriver("header_extending", IF head_hash.ok THEN head_hash.hash ELSE 0)

(***************************************************************************)
(* The blocks a closure may apply.  A block's header records the MMR sizes *)
(* of its previous header grown by the block's leaves; skew is what the    *)
(* header's output_mmr_size claims beyond that.                            *)
(***************************************************************************)
Body(outs, ins, touts, tins, kerns, tkerns) ==
  [outputs |-> outs, inputs |-> ins, token_outputs |-> touts, token_inputs |-> tins,
   kernels |-> kerns, token_kernels |-> tkerns]

TokenOut(issue) == [commit |-> 1, token_type |-> 1, issue |-> issue]

TokenIn == [commit |-> 1, token_type |-> 1]

\* block bodies: new outputs, a commitment twice in one block, spends, a spend of
\* two outputs, a spend of one output twice, a token issue, a token transfer, a
\* token spend, two issues of one token type
Bodies ==
  {Body(<<1>>, <<>>, <<>>, <<>>, <<1>>, <<>>),
   Body(<<1, 2>>, <<>>, <<>>, <<>>, <<1>>, <<>>),
   Body(<<1, 1>>, <<>>, <<>>, <<>>, <<1>>, <<>>),
   Body(<<>>, <<1>>, <<>>, <<>>, <<1>>, <<>>),
   Body(<<2>>, <<1>>, <<>>, <<>>, <<1>>, <<>>),
   Body(<<>>, <<1, 2>>, <<>>, <<>>, <<1>>, <<>>),
   Body(<<>>, <<1, 1>>, <<>>, <<>>, <<1>>, <<>>),
   Body(<<>>, <<>>, <<TokenOut(TRUE)>>, <<>>, <<>>, <<1>>),
   Body(<<>>, <<>>, <<TokenOut(FALSE)>>, <<>>, <<>>, <<1>>),
   Body(<<>>, <<>>, <<>>, <<TokenIn>>, <<>>, <<1>>),
   Body(<<>>, <<>>, <<TokenOut(TRUE), [TokenOut(TRUE) EXCEPT !.commit = 2]>>, <<>>, <<>>, <<1>>)}

\* bodies of the blocks whose header may claim a wrong output_mmr_size
SkewBodies ==
  {Body(<<1>>, <<>>, <<>>, <<>>, <<1>>, <<>>),
   Body(<<>>, <<1>>, <<>>, <<>>, <<1>>, <<>>)}

Grown(size, n) == SizeOf(n_leaves(size) + n)

Issues(body) ==
  Cardinality({i \in 1..Len(body.token_outputs) : body.token_outputs[i].issue})

\* the block with this body on top of the block named prev in store blocks
MkBlock(blocks, prev, body, skew) ==
  LET p == blocks[prev]
  IN [height |-> p.height + 1, prev |-> prev,
      outputs |-> body.outputs, inputs |-> body.inputs,
      token_outputs |-> body.token_outputs, token_inputs |-> body.token_inputs,
      kernels |-> body.kernels, token_kernels |-> body.token_kernels,
      output_mmr_size |-> Grown(p.output_mmr_size, Len(body.outputs) + skew),
      kernel_mmr_size |-> Grown(p.kernel_mmr_size, Len(body.kernels)),
      token_output_mmr_size |-> Grown(p.token_output_mmr_size, Len(body.token_outputs)),
      token_issue_proof_mmr_size |-> Grown(p.token_issue_proof_mmr_size, Issues(body)),
      token_kernel_mmr_size |-> Grown(p.token_kernel_mmr_size, Len(body.token_kernels))]

RECURSIVE Ancestors(_, _)
\* the block named h and the blocks below it on its chain
Ancestors(blocks, h) ==
  IF h = 0 THEN {} ELSE {h} \cup Ancestors(blocks, blocks[h].prev)

\* the commitments with an index entry whose output leaf is unpruned and carries them
Unspent(s) ==
  {c \in DOMAIN s.cb.output_pos :
     LET d == get_data("output", s.be["output"], s.pos["output"], s.cb.output_pos[c].pos)
     IN d.some /\ d.v = c}

\* the first output of outs that repeats an unspent commitment or an earlier output
\* of outs; 0 when there is none
FirstDup(s, outs) ==
  LET bad == {i \in 1..Len(outs) :
                outs[i] \in Unspent(s) \cup {outs[j] : j \in 1..(i - 1)}}
  IN IF bad = {} THEN 0 ELSE outs[SetMin(bad)]

\* the first input of b that, at its turn after the outputs of b and the inputs
\* before it, all of them applied with success, has a commitment with no index
\* entry or with an index entry at a pruned position; 0 when there is none
FirstGone(s, b) ==
  LET ins == b.inputs
      After(o) ==
        LET Gone(c) == \/ c \notin DOMAIN o.s.cb.output_pos
                       \/ ~has_hash("output", o.s.be["output"], o.s.cb.output_pos[c].pos)
            bad == {i \in 1..Len(ins) :
                      ins[i] \in {ins[j] : j \in 1..(i - 1)} \/ Gone(ins[i])}
        IN IF ~o.ok \/ bad = {} THEN 0
           ELSE IF \A j \in 1..(SetMin(bad) - 1) : ins[j] \in Unspent(o.s)
                THEN ins[SetMin(bad)]
                ELSE 0
  IN After(ApplyOutputs(s, b, 1, <<>>))

\* the token commitments with an index entry whose token-output leaf is unpruned
\* and carries them
TokenUnspent(s) ==
  {c \in DOMAIN s.cb.token_output_pos :
     LET d == get_data("token_output", s.be["token_output"], s.pos["token_output"],
                       s.cb.token_output_pos[c].pos)
     IN d.some /\ d.v.commit = c}

\* the first token output of outs that repeats an unspent token commitment or an
\* earlier token output of outs; 0 when there is none
FirstTokenDup(s, outs) ==
  LET bad == {i \in 1..Len(outs) :
                outs[i].commit \in TokenUnspent(s) \cup {outs[j].commit : j \in 1..(i - 1)}}
  IN IF bad = {} THEN 0 ELSE outs[SetMin(bad)].commit

TokenTypes == {1}

\* the token outputs of the blocks of the chain below h that issue token type key
IssuedOnChain(blocks, h, key) ==
  {<<x, i>> \in Ancestors(blocks, h) \X (1..2) :
     /\ i <= Len(blocks[x].token_outputs)
     /\ blocks[x].token_outputs[i].issue
     /\ blocks[x].token_outputs[i].token_type = key}

\* the token type of the first token output of outs that issues a type that a block
\* of the chain below the head of s, or an earlier token output of outs, has
\* issued; 0 when there is none
FirstKey(s, outs) ==
  LET bad == {i \in 1..Len(outs) :
                /\ outs[i].issue
                /\ \/ IssuedOnChain(s.cb.blocks, s.head, outs[i].token_type) # {}
                   \/ \E j \in 1..(i - 1) :
                        outs[j].issue /\ outs[j].token_type = outs[i].token_type}
  IN IF bad = {} THEN 0 ELSE outs[SetMin(bad)].token_type

(***************************************************************************)
(* What a closure does with the ExtensionPair or HeaderExtension it gets.  *)
(* A closure hands the first Err it gets from an operation on to the       *)
(* driver (the ? of the callers): it goes on only after Ok and returns Ok  *)
(* only after Ok.                                                          *)
(***************************************************************************)
InClosure ==
  /\ pc = "closure"
  /\ nops < MaxOps
  /\ res.ok

\* the closure may return ok
MayReturn(ok) == ok => res.ok

Stepped(r, op, dup, tdup, gone, tkey) ==
  /\ nops' = nops + 1
  /\ res' = [ok |-> r.ok, err |-> r.err, op |-> op, dup |-> dup, tdup |-> tdup,
             gone |-> gone, tkey |-> tkey,
             log |-> r.s.log,
             val |-> IF op = "validate" THEN r.val ELSE 0]
  /\ UNCHANGED <<disk, last_pos, bitmap_accumulator, batch, pc, driver, ret, fails,
                 pre, committed, synced, calls, done>>

\* the closure calls extension.apply_block(b, batch) for a block b on top of the
\* extension's head; on Ok the caller has the block and the new body head in the
\* same batch
ApplyBlock(body, skew) ==
  /\ InClosure
  /\ driver \in {"extending", "extending_readonly"}
  /\ LET hash == Len(child_batch.blocks) + 1
         Applied(b, r) ==
           /\ r.ok => Len(child_batch.blocks) <= MaxBlocks
           /\ Reached(IF r.ok
                      THEN [r.s EXCEPT !.cb.blocks = Append(@, b), !.cb.head = hash,
                                       !.cb.snap = Append(@, Observed(r.s.be, r.s.pos,
                                                                      r.s.acc)),
                                       !.cb.index_was = Append(@, Indexes(child_batch))]
                      ELSE r.s, r.ok)
           /\ Stepped(r, "apply_block", FirstDup(S, body.outputs),
                      FirstTokenDup(S, body.token_outputs), FirstGone(S, b),
                      FirstKey(S, body.token_outputs))
         Built(b) ==
           Applied(b, apply_block([S EXCEPT !.log = <<[op |-> "apply_block", b |-> b]>>],
                                  b, hash))
     IN Built(MkBlock(child_batch.blocks, ext.head, body, skew))

\* the closure calls extension.rewind(header, batch), header.hash() = target
RewindTo(target) ==
  /\ InClosure
  /\ driver \in {"extending", "extending_readonly"}
  /\ LET Rewound(r) ==
           /\ Reached(IF r.ok THEN [r.s EXCEPT !.cb.head = target] ELSE r.s, FALSE)
           /\ Stepped(r, "rewind", 0, 0, 0, 0)
     IN Rewound(ext_rewind([S EXCEPT !.log = <<[op |-> "rewind", header |-> target]>>],
                           target))

\* the closure calls extension.rewind for a header of its chain
Rewind(target) ==
  /\ target \in Ancestors(child_batch.blocks, ext.head)
  /\ RewindTo(target)

\* the closure calls extension.rewind for a header of the store that is not on its
\* chain: a block rewound away, or a block of another fork
RewindOffChain(target) ==
  /\ target \in 1..Len(child_batch.blocks)
  /\ target \notin Ancestors(child_batch.blocks, ext.head)
  /\ RewindTo(target)

\* the closure calls extension.validate_sizes for the header named hash
ValidateSizes(hash) ==
  /\ InClosure
  /\ driver \in {"extending", "extending_readonly"}
  /\ hash \in 1..Len(child_batch.blocks)
  /\ LET Validated(r) ==
           /\ Stepped(r, "validate_sizes", 0, 0, 0, 0)
           /\ UNCHANGED <<backend, child_batch, ext>>
     IN Validated(validate_sizes([S EXCEPT !.log = <<[op |-> "validate_sizes",
                                                      header |-> hash]>>],
                                 child_batch.blocks[hash]))

\* the closure calls Extension::force_rollback
ForceRollback ==
  /\ InClosure
  /\ driver \in {"extending", "extending_readonly"}
  /\ ~ext.rollback
  /\ ext' = [ext EXCEPT !.rollback = TRUE]
  /\ nops' = nops + 1
  /\ UNCHANGED <<backend, disk, last_pos, bitmap_accumulator, batch, child_batch, pc,
                 driver, res, ret, fails, pre, committed, synced, calls, done>>

\* the closure calls HeaderExtension::apply_header for the genesis header or the
\* header of the batch's body head
ApplyHeader(hash) ==
  /\ InClosure
  /\ hash \in {1, child_batch.head}
  /\ n_leaves(ext.hpos) < MaxHeaders
  /\ LET r == apply_header(S, hash)
     IN /\ Reached(r.s, FALSE)
        /\ Stepped(r, "apply_header", 0, 0, 0, 0)

\* the closure calls HeaderExtension::rewind for a header on the header chain
HeaderRewind(hash) ==
  /\ InClosure
  /\ hash \in 1..Len(child_batch.blocks)
  /\ LET d == get_data("header", backend["header"], ext.hpos,
                       insertion_to_pmmr_index(child_batch.blocks[hash].height + 1))
     IN d.some /\ d.v = hash
  /\ LET r == header_rewind(S, hash)
     IN /\ Reached(r.s, FALSE)
        /\ Stepped(r, "header_rewind", 0, 0, 0, 0)

\* the closure calls HeaderExtension::force_rollback
HeaderForceRollback ==
  /\ InClosure
  /\ ~ext.hrollback
  /\ ext' = [ext EXCEPT !.hrollback = TRUE]
  /\ nops' = nops + 1
  /\ UNCHANGED <<backend, disk, last_pos, bitmap_accumulator, batch, child_batch, pc,
                 driver, res, ret, fails, pre, committed, synced, calls, done>>

(***************************************************************************)
(* The drivers after the closure has returned.  An I/O failure is the      *)
(* call, counted from child_batch.commit() as 1, that returns Err; 0 when  *)
(* every call returns Ok.                                                  *)
(***************************************************************************)
Discarded(ms) == [m \in AllMMRs |-> IF m \in ms THEN disk[m] ELSE backend[m]]

ClosureErr == [ok |-> FALSE, err |-> [kind |-> "Closure", c |-> 0]]

IoErr == [ok |-> FALSE, err |-> [kind |-> "Io", c |-> 0]]

\* what a closure that returned ok did, for a driver call that does not commit
Dropped(ok, rollback) ==
  [NoDone EXCEPT !.closure_ok = ok, !.rollback = ok /\ rollback, !.applied = ext.applied,
                 !.failed = IF res.ok THEN NoFailure ELSE [op |-> res.op, err |-> res.err],
                 !.hsize = ext.hpos, !.hrollback = ext.hrollback]

\* what the closure of an extending that reaches its commit branch did
Kept ==
  [closure_ok |-> TRUE, rollback |-> ext.rollback,
   applied |-> ext.applied, clean |-> ext.clean,
   validated |-> res.op = "validate_sizes",
   sizes |-> sizes(S), acc |-> ext.acc, failed |-> NoFailure,
   removed |-> 0, added |-> 0, before |-> [name |-> "", ok |-> FALSE], arg |-> 0,
   hsize |-> ext.hpos, hrollback |-> ext.hrollback, saved |-> <<>>]

\* the backends whose sync() returns Ok when call f fails
SyncedBefore(f) ==
  {DataMMRs[j] : j \in 1..(IF f = 0 THEN Len(DataMMRs) ELSE f - 2)}

\* extending that takes the commit branch whenever the closure returned Ok
ExtendingCommitsIgnoresRollback(ok) == ok

\* extending that reads the rollback flag of the header extension too
ExtendingCommitsReadsHeaderRollback(ok) == ok /\ ~ext.rollback /\ ~ext.hrollback

\* extending: the commit branch is taken when the closure returned Ok and the
\* rollback flag is not set
ExtendingCommits(ok) == ok /\ ~ext.rollback

\* extending that keeps the data backends as the closure left them when it
\* returned Err
ExtendingDiscardsKeepsOnErr(ok) ==
  IF ok /\ ext.rollback THEN AllMMRs ELSE {"header"}

\* extending that leaves the output backend as the closure left it
ExtendingDiscardsKeepsOutput(ok) ==
  IF ~ok \/ ext.rollback THEN AllMMRs \ {"output"} ELSE {"header"}

\* extending that discards the header backend with the data backends only
ExtendingDiscardsKeepsHeader(ok) ==
  IF ~ok \/ ext.rollback THEN AllMMRs ELSE {}

\* extending: the header backend is always discarded, the seven data backends when
\* the closure returned Err or the rollback flag is set
ExtendingDiscards(ok) ==
  IF ~ok \/ ext.rollback THEN AllMMRs ELSE {"header"}

\* extending that moves all seven cursors once the kernel backend is synced
ExtendingCursorsMovedEarly(n) ==
  [x \in AllMMRs |-> IF x \in DataSet /\ n >= 3 THEN sizes(S)[x] ELSE last_pos[x]]

\* extending that never moves the four token cursors
ExtendingCursorsKeepsToken(n) ==
  [x \in AllMMRs |->
     IF x \in {"output", "rproof", "kernel"} /\ n >= 3 THEN sizes(S)[x] ELSE last_pos[x]]

\* extending: the last_pos assignments reached when n backends are synced: the
\* first three after the kernel sync, all seven after the last sync
ExtendingCursors(n) ==
  [x \in AllMMRs |->
     IF x \in DataSet /\ (n = 7 \/ (n >= 3 /\ x \in {"output", "rproof", "kernel"}))
     THEN sizes(S)[x]
     ELSE last_pos[x]]

\* extending that assigns the accumulator after the match on the closure's result
\* instead of inside its commit branch
ExtendingEndAssignsAfterBranch(ok, f) ==
  /\ pc = "closure"
  /\ driver = "extending"
  /\ MayReturn(ok)
  /\ backend' = Discarded(ExtendingDiscards(ok))
  /\ IF ExtendingCommits(ok)
     THEN /\ f # 0 => fails < MaxFail
          /\ fails' = IF f # 0 THEN fails + 1 ELSE fails
          /\ committed' = (f # 1)
          /\ batch' = IF f = 1 THEN batch ELSE child_batch
          /\ synced' = SyncedBefore(f)
          /\ disk' = [m \in AllMMRs |-> IF m \in SyncedBefore(f) THEN backend[m] ELSE disk[m]]
          /\ last_pos' = ExtendingCursors(Cardinality(SyncedBefore(f)))
          /\ bitmap_accumulator' = IF f = 0 THEN ext.acc ELSE bitmap_accumulator
          /\ Returned(IF f = 0 THEN NoRet ELSE IoErr, Kept)
     ELSE /\ f = 0
          /\ Returned(IF ok THEN NoRet ELSE ClosureErr, Dropped(ok, ext.rollback))
          /\ bitmap_accumulator' = IF ok THEN ext.acc ELSE bitmap_accumulator
          /\ UNCHANGED <<disk, last_pos, batch, fails, committed, synced>>
  /\ UNCHANGED <<pre, calls>>

\* extending from the return of the closure on: discard, or child_batch.commit()?,
\* the seven backend.sync()? and the assignments
ExtendingEnd(ok, f) ==
  /\ pc = "closure"
  /\ driver = "extending"
  /\ MayReturn(ok)
  /\ backend' = Discarded(ExtendingDiscards(ok))
  /\ IF ExtendingCommits(ok)
     THEN /\ f # 0 => fails < MaxFail
          /\ fails' = IF f # 0 THEN fails + 1 ELSE fails
          /\ committed' = (f # 1)
          /\ batch' = IF f = 1 THEN batch ELSE child_batch
          /\ synced' = SyncedBefore(f)
          /\ disk' = [m \in AllMMRs |-> IF m \in SyncedBefore(f) THEN backend[m] ELSE disk[m]]
          /\ last_pos' = ExtendingCursors(Cardinality(SyncedBefore(f)))
          /\ bitmap_accumulator' = IF f = 0 THEN ext.acc ELSE bitmap_accumulator
          /\ Returned(IF f = 0 THEN NoRet ELSE IoErr, Kept)
     ELSE /\ f = 0
          /\ Returned(IF ok THEN NoRet ELSE ClosureErr, Dropped(ok, ext.rollback))
          /\ UNCHANGED <<disk, last_pos, bitmap_accumulator, batch, fails, committed, synced>>
  /\ UNCHANGED <<pre, calls>>

\* extending_readonly that discards the header backend only
ExtendingReadonlyDiscardsHeaderOnly == {"header"}

\* extending_readonly: every backend is discarded
ExtendingReadonlyDiscards == AllMMRs

\* extending_readonly from the return of the closure on
ExtendingReadonlyEnd(ok) ==
  /\ pc = "closure"
  /\ driver = "extending_readonly"
  /\ MayReturn(ok)
  /\ backend' = Discarded(ExtendingReadonlyDiscards)
  /\ Returned(IF ok THEN NoRet ELSE ClosureErr, Dropped(ok, FALSE))
  /\ UNCHANGED <<disk, last_pos, bitmap_accumulator, batch, fails, pre, committed, synced,
                 calls>>

\* header_extending: the discard branch is taken when the closure returned Err or
\* the rollback flag is set
HeaderExtendingRollsBack(ok) == ~ok \/ ext.hrollback

\* header_extending from the return of the closure on: discard, or
\* child_batch.commit()?, handle.backend.sync()? and handle.last_pos = size
HeaderExtendingEnd(ok, f) ==
  /\ pc = "closure"
  /\ driver = "header_extending"
  /\ MayReturn(ok)
  /\ IF HeaderExtendingRollsBack(ok)
     THEN /\ f = 0
          /\ backend' = Discarded({"header"})
          /\ Returned(IF ok THEN NoRet ELSE ClosureErr, Dropped(ok, ext.hrollback))
          /\ UNCHANGED <<disk, last_pos, batch, fails, committed, synced>>
     ELSE /\ f # 0 => fails < MaxFail
          /\ fails' = IF f # 0 THEN fails + 1 ELSE fails
          /\ committed' = (f # 1)
          /\ batch' = IF f = 1 THEN batch ELSE child_batch
          /\ synced' = IF f = 0 THEN {"header"} ELSE {}
          /\ disk' = IF f = 0 THEN [disk EXCEPT !["header"] = backend["header"]] ELSE disk
          /\ last_pos' = IF f = 0 THEN [last_pos EXCEPT !["header"] = ext.hpos]
                         ELSE last_pos
          /\ Returned(IF f = 0 THEN NoRet ELSE IoErr,
                      [Dropped(TRUE, FALSE) EXCEPT !.hsize = ext.hpos])
          /\ UNCHANGED backend
  /\ UNCHANGED <<bitmap_accumulator, pre, calls>>

\* a driver over read-only views and a batch that is dropped: the closure's
\* result is returned
ViewDriver(name, ok) ==
  /\ pc = "idle"
  /\ driver' = name
  /\ ret' = IF ok THEN NoRet ELSE ClosureErr
  /\ pre' = Snapshot
  /\ committed' = FALSE
  /\ synced' = {}
  /\ done' = Dropped(ok, FALSE)
  /\ UNCHANGED <<backend, disk, last_pos, bitmap_accumulator, batch, child_batch, ext,
                 pc, nops, res, fails, calls>>

\* utxo_view
UtxoView(ok) == ViewDriver("utxo_view", ok)

\* rewindable_kernel_view
RewindableKernelView(ok) == ViewDriver("rewindable_kernel_view", ok)

Next ==
  \/ ExtendingBegin
  \/ ExtendingReadonlyBegin
  \/ HeaderExtendingBegin
  \/ \E body \in Bodies : ApplyBlock(body, 0)
  \/ \E target \in 1..(MaxBlocks + 1) : Rewind(target)
  \/ ForceRollback
  \/ \E hash \in 1..(MaxBlocks + 1) : ApplyHeader(hash)
  \/ \E hash \in 1..(MaxBlocks + 1) : HeaderRewind(hash)
  \/ HeaderForceRollback
  \/ \E ok \in BOOLEAN, f \in 0..(Len(DataMMRs) + 1) : ExtendingEnd(ok, f)
  \/ \E ok \in BOOLEAN : ExtendingReadonlyEnd(ok)
  \/ \E ok \in BOOLEAN, f \in 0..2 : HeaderExtendingEnd(ok, f)
  \/ \E ok \in BOOLEAN : UtxoView(ok)
  \/ \E ok \in BOOLEAN : RewindableKernelView(ok)

Spec == Init /\ [][Next]_vars

\* extending and extending_readonly with closures that may also apply blocks whose
\* header claims one output leaf too many, and may validate the sizes
NextAnyHeader ==
  \/ ExtendingBegin
  \/ ExtendingReadonlyBegin
  \/ \E body \in Bodies : ApplyBlock(body, 0)
  \/ \E body \in SkewBodies : ApplyBlock(body, 1)
  \/ \E target \in 1..(MaxBlocks + 1) : Rewind(target)
  \/ ValidateSizes(ext.head)
  \/ ForceRollback
  \/ \E ok \in BOOLEAN, f \in 0..(Len(DataMMRs) + 1) : ExtendingEnd(ok, f)
  \/ \E ok \in BOOLEAN : ExtendingReadonlyEnd(ok)

SpecAnyHeader == Init /\ [][NextAnyHeader]_vars

\* extending and extending_readonly with closures that may rewind to any header of
\* the store
NextAnyTarget ==
  \/ ExtendingBegin
  \/ ExtendingReadonlyBegin
  \/ \E body \in Bodies : ApplyBlock(body, 0)
  \/ \E target \in 1..(MaxBlocks + 1) : Rewind(target)
  \/ \E target \in 1..(MaxBlocks + 1) : RewindOffChain(target)
  \/ ForceRollback
  \/ \E ok \in BOOLEAN, f \in 0..(Len(DataMMRs) + 1) : ExtendingEnd(ok, f)
  \/ \E ok \in BOOLEAN : ExtendingReadonlyEnd(ok)

SpecAnyTarget == Init /\ [][NextAnyTarget]_vars

\* block bodies with entries of each kind: a block that spends the output it
\* creates, the same for a token output, a block with outputs, a token issue and
\* kernels of both kinds, a block that spends and creates in each MMR, a spend of
\* one output twice after its creation, and plain blocks
MixedBodies ==
  {Body(<<1>>, <<1>>, <<>>, <<>>, <<1>>, <<>>),
   Body(<<>>, <<>>, <<TokenOut(FALSE)>>, <<TokenIn>>, <<>>, <<1>>),
   Body(<<1, 2>>, <<>>, <<TokenOut(TRUE)>>, <<>>, <<1>>, <<1>>),
   Body(<<3>>, <<1, 2>>, <<[TokenOut(FALSE) EXCEPT !.commit = 2]>>, <<TokenIn>>, <<1, 2>>, <<1>>),
   Body(<<1>>, <<1, 1>>, <<>>, <<>>, <<1>>, <<>>),
   Body(<<1>>, <<>>, <<>>, <<>>, <<1>>, <<>>),
   Body(<<>>, <<1>>, <<>>, <<>>, <<1>>, <<>>)}

\* extending with closures that apply blocks of these bodies and rewind
NextBlocks ==
  \/ ExtendingBegin
  \/ \E body \in MixedBodies : ApplyBlock(body, 0)
  \/ \E target \in 1..(MaxBlocks + 1) : Rewind(target)
  \/ ForceRollback
  \/ \E ok \in BOOLEAN, f \in 0..(Len(DataMMRs) + 1) : ExtendingEnd(ok, f)

SpecBlocks == Init /\ [][NextBlocks]_vars

(***************************************************************************)
(* Compaction.                                                             *)
(***************************************************************************)
\* the input bitmaps a store holds: its legacy bitmaps and, when cached, the
\* positions the inputs spent for each block with a spent index
StoredBitmaps(index, bitmaps, cached) ==
  [x \in DOMAIN bitmaps \cup (IF cached THEN DOMAIN index ELSE {}) |->
     IF x \in DOMAIN bitmaps THEN bitmaps[x]
     ELSE {index[x][i].pos : i \in 1..Len(index[x])}]

\* input_pos_to_rewind and token_input_pos_to_rewind: the bitmaps of the blocks
\* above block_header up to head_header, OR'ed together; a block without a bitmap
\* is skipped
input_pos_to_rewind(blocks, bitmaps, block_header, head_header) ==
  UNION {get_block_input_bitmap(bitmaps, x).val :
           x \in {y \in Ancestors(blocks, head_header) :
                    /\ blocks[y].height > blocks[block_header].height
                    /\ get_block_input_bitmap(bitmaps, y).ok}}

\* the backends after TxHashSet::compact for the header named horizon_header
Compacted(be, horizon_header, cached) ==
  LET hz == batch.blocks[horizon_header]
      rewind_rm_pos ==
        input_pos_to_rewind(batch.blocks,
                            StoredBitmaps(batch.spent_index, batch.input_bitmap, cached),
                            horizon_header, batch.head)
      token_rewind_rm_pos ==
        input_pos_to_rewind(batch.blocks,
                            StoredBitmaps(batch.token_spent_index, batch.token_input_bitmap,
                                          cached),
                            horizon_header, batch.head)
  IN [m \in AllMMRs |->
        CASE m \in {"output", "rproof"} ->
               check_compact(be[m], hz.output_mmr_size, rewind_rm_pos)
          [] m = "token_output" ->
               check_compact(be[m], hz.token_output_mmr_size, token_rewind_rm_pos)
          [] m = "token_rproof" ->
               check_compact(be[m], hz.token_issue_proof_mmr_size, token_rewind_rm_pos)
          [] OTHER -> be[m]]

\* TxHashSet::compact(horizon_header, batch); check_compact rewrites the files
Compact(horizon_header, cached) ==
  /\ pc = "idle"
  /\ calls < MaxCalls
  /\ horizon_header \in Ancestors(batch.blocks, batch.head)
  /\ calls' = calls + 1
  /\ driver' = "compact"
  /\ pre' = Snapshot
  /\ backend' = Compacted(backend, horizon_header, cached)
  /\ disk' = Compacted(disk, horizon_header, cached)
  /\ ret' = NoRet
  /\ committed' = FALSE
  /\ synced' = {}
  /\ done' = [NoDone EXCEPT !.arg = [horizon_header |-> horizon_header, cached |-> cached]]
  /\ UNCHANGED <<last_pos, bitmap_accumulator, batch, child_batch, ext, pc, nops, res,
                 fails>>

\* extending and extending_readonly with closures that apply blocks and rewind,
\* and compaction between them
NextCompact ==
  \/ ExtendingBegin
  \/ ExtendingReadonlyBegin
  \/ \E body \in Bodies : ApplyBlock(body, 0)
  \/ \E target \in 1..(MaxBlocks + 1) : Rewind(target)
  \/ \E ok \in BOOLEAN, f \in 0..(Len(DataMMRs) + 1) : ExtendingEnd(ok, f)
  \/ \E ok \in BOOLEAN : ExtendingReadonlyEnd(ok)
  \/ \E horizon_header \in 1..(MaxBlocks + 1), cached \in BOOLEAN :
       Compact(horizon_header, cached)

SpecCompact == Init /\ [][NextCompact]_vars

(***************************************************************************)
(* The index rebuild and the unspent check, on the TxHashSet between the   *)
(* drivers.                                                                *)
(***************************************************************************)
\* PMMRHandle::get_header_hash_by_height
get_header_hash_by_height(be, lp, height) ==
  get_data("header", be["header"], lp["header"], insertion_to_pmmr_index(height + 1))

\* a first pass that deletes every entry, for the second pass to save it again
KeptEntriesNone(be, lp, index) == {}

\* init_output_pos_index, first pass: the index entries that stay, those whose
\* position holds an output whose own index entry has that position and that key
KeptEntries(be, lp, index) ==
  {key \in DOMAIN index :
     LET Match(out) == /\ out.some
                       /\ out.v \in DOMAIN index
                       /\ index[key].pos = index[out.v].pos
                       /\ key = out.v
     IN Match(get_data("output", be["output"], lp["output"], index[key].pos))}

\* init_output_pos_index, outputs_pos: the (commit, pos) of the leaves of
\* leaf_pos_iter that get_data serves, by position, without those whose commitment
\* the index has
outputs_pos(be, lp, index) ==
  LET leaves == {pos \in be["output"].leaf_set :
                   LET Missing(out) == out.some /\ out.v \notin DOMAIN index
                   IN Missing(get_data("output", be["output"], lp["output"], pos))}
      Sorted(n) == [i \in 1..n |->
                     LET pos == CHOOSE q \in leaves :
                                  Cardinality({r \in leaves : r < q}) = i - 1
                     IN [commit |-> be["output"].data[n_leaves(pos)], pos |-> pos]]
  IN Sorted(Cardinality(leaves))

RECURSIVE SaveRange(_, _, _, _, _)
\* save_output_pos_height for the n elements of queue from the i-th on
SaveRange(index, queue, i, n, height) ==
  IF n = 0 THEN index
  ELSE SaveRange(Put(index, queue[i].commit, [pos |-> queue[i].pos, height |-> height]),
                 queue, i + 1, n - 1, height)

RECURSIVE Backfill(_, _, _, _, _, _)
\* init_output_pos_index, the loop over search_height, its inner while loop at
\* outputs_pos[i]; [ok, bt, added, saved] with the batch as the loop leaves it, the
\* number of entries it saved and its save_output_pos_height calls in their order
Backfill(be, lp, bt, queue, i, search_height) ==
  IF search_height >= bt.blocks[bt.head].height
  THEN [ok |-> TRUE, bt |-> bt, added |-> i - 1, saved |-> <<>>]
  ELSE LET Header(hash) ==
             IF ~hash.some \/ hash.v \notin 1..Len(bt.blocks)
             THEN [ok |-> FALSE, bt |-> bt, added |-> i - 1, saved |-> <<>>]
             ELSE LET h == bt.blocks[hash.v]
                      Saves(n) ==
                        [k \in 1..n |-> [commit |-> queue[i + k - 1].commit,
                                         pos |-> queue[i + k - 1].pos, height |-> h.height]]
                      Take(n) ==
                        [Backfill(be, lp,
                                  [bt EXCEPT !.output_pos = SaveRange(@, queue, i, n, h.height)],
                                  queue, i + n, search_height + 1)
                           EXCEPT !.saved = Saves(n) \o @]
                  IN Take(Cardinality({k \in i..Len(queue) :
                                         \A j \in i..k : queue[j].pos <= h.output_mmr_size}))
       IN Header(get_header_hash_by_height(be, lp, search_height + 1))

\* TxHashSet::init_output_pos_index(header_pmmr, batch); [ok, bt, removed, added,
\* saved] with removed_count, the number of entries saved and the saves in order
init_output_pos_index(be, lp, bt) ==
  LET Second(pruned) ==
        LET Counted(r) ==
              [ok |-> r.ok, bt |-> r.bt, added |-> r.added, saved |-> r.saved,
               removed |-> Cardinality(DOMAIN bt.output_pos) -
                           Cardinality(DOMAIN pruned.output_pos)]
            Queued(queue) == IF queue = <<>>
                             THEN [ok |-> TRUE, bt |-> pruned, added |-> 0, saved |-> <<>>]
                             ELSE Backfill(be, lp, pruned, queue, 1, 0)
        IN Counted(Queued(outputs_pos(be, lp, pruned.output_pos)))
  IN Second([bt EXCEPT !.output_pos =
               [key \in KeptEntries(be, lp, bt.output_pos) |-> bt.output_pos[key]]])

\* the TxHashSet and the store a chain of blocks leaves, headers included
EmptyChain ==
  [be |-> [m \in AllMMRs |-> IF m = "header" THEN GenesisHeaders ELSE EmptyBackend],
   pos |-> [m \in DataSet |-> 0], hpos |-> 1, hhead |-> 1, cb |-> EmptyBatch,
   acc |-> <<>>, head |-> 1, log |-> <<>>]

\* the chain s with a block of this body on top; ok tells whether apply_block took it
Grow(s, body) ==
  LET hash == Len(s.cb.blocks) + 1
      Applied(b, r) ==
        IF ~r.ok THEN [ok |-> FALSE, s |-> s]
        ELSE [ok |-> TRUE,
              s |-> [r.s EXCEPT !.cb.blocks = Append(@, b), !.cb.head = hash,
                                !.be["header"] = push("header", @, s.hpos, hash).b,
                                !.hpos = SizeOf(n_leaves(s.hpos) + 1), !.hhead = hash]]
      Built(b) == Applied(b, apply_block(s, b, hash))
  IN Built(MkBlock(s.cb.blocks, s.head, body, 0))

\* the bodies without tokens, and a block that creates a second output
PlainBodies ==
  {body \in Bodies : body.token_outputs = <<>> /\ body.token_inputs = <<>>}
    \cup {Body(<<2>>, <<>>, <<>>, <<>>, <<1>>, <<>>)}

\* the chains of at most MaxBlocks blocks above genesis
Chains ==
  LET More(from) == {g.s : g \in {x \in {Grow(s, body) : s \in from, body \in PlainBodies} : x.ok}}
  IN {EmptyChain} \cup More({EmptyChain}) \cup More(More({EmptyChain}))

Commits == {1, 2}

\* what a store may hold for the output_pos index: any entries, right or stale
IndexEntries == [pos : {1, 2, 4}, height : 1..MaxBlocks]

IndexContents ==
  UNION {[keys -> IndexEntries] : keys \in SUBSET Commits}

\* a block with one output on top of genesis
ForkBlock == MkBlock(<<Genesis>>, 1, Body(<<1>>, <<>>, <<>>, <<>>, <<1>>, <<>>), 0)

\* the header MMR of a TxHashSet whose body chain is s: the headers of that chain,
\* the genesis header alone, or the headers of a fork whose block the store has
\* after the blocks of s
HeaderMMR(s, headers) ==
  CASE headers = "chain" -> s.be["header"]
    [] headers = "genesis" -> GenesisHeaders
    [] OTHER -> [GenesisHeaders EXCEPT !.data = <<1, Len(s.cb.blocks) + 1>>]

\* a TxHashSet as a chain left it, over a store with any index contents, and a
\* header MMR that follows the chain, lags behind it or follows a fork
InitIndex ==
  /\ \E s \in Chains, index \in IndexContents, headers \in {"chain", "genesis", "fork"} :
       /\ backend = [s.be EXCEPT !["header"] = HeaderMMR(s, headers)]
       /\ last_pos = [m \in AllMMRs |->
                        IF m # "header" THEN s.pos[m]
                        ELSE SizeOf(Len(HeaderMMR(s, headers).data))]
       /\ bitmap_accumulator = s.acc
       /\ batch = [s.cb EXCEPT !.output_pos = index,
                               !.blocks = IF headers = "fork" THEN Append(@, ForkBlock) ELSE @]
  /\ disk = backend
  /\ child_batch = EmptyBatch
  /\ ext = NoExt
  /\ pc = "idle"
  /\ driver = "none"
  /\ nops = 0
  /\ res = NoRes
  /\ ret = NoRet
  /\ fails = 0
  /\ calls = 0
  /\ pre = Snapshot
  /\ committed = FALSE
  /\ synced = {}
  /\ done = NoDone

\* a call of a TxHashSet method that takes the batch and starts no extension; d
\* records what it did
Called(name, r, bt, d) ==
  /\ pc = "idle"
  /\ calls < MaxCalls
  /\ calls' = calls + 1
  /\ driver' = name
  /\ pre' = Snapshot
  /\ ret' = r
  /\ batch' = bt
  /\ committed' = FALSE
  /\ synced' = {}
  /\ done' = [d EXCEPT !.before = [name |-> driver, ok |-> ret.ok]]
  /\ UNCHANGED <<backend, disk, last_pos, bitmap_accumulator, child_batch, ext, pc, nops,
                 res, fails>>

\* the caller runs init_output_pos_index on its batch
InitOutputPosIndex ==
  LET Done(r) ==
        Called("init_output_pos_index",
               IF r.ok THEN NoRet ELSE [ok |-> FALSE, err |-> [kind |-> "Other", c |-> 0]],
               r.bt, [NoDone EXCEPT !.removed = r.removed, !.added = r.added,
                                     !.saved = r.saved])
  IN Done(init_output_pos_index(backend, last_pos, batch))

\* OutputIdentifier::from(out) for the output with this commitment: the outputs
\* of the blocks are plain outputs
OutputIdentifier(commit) == [features |-> "Plain", commit |-> commit]

\* the identifiers asked for: a commitment as a plain or as a coinbase output
OutputIds == [features : {"Plain", "Coinbase"}, commit : Commits]

\* get_unspent that trusts the index and reads no leaf
get_unspent_by_index(be, lp, index, output_id, store_err) ==
  IF store_err THEN [ok |-> FALSE, err |-> [kind |-> "StoreErr", c |-> 0], val |-> NoData]
  ELSE IF output_id.commit \notin DOMAIN index THEN [ok |-> TRUE, err |-> NoErr, val |-> NoData]
  ELSE [ok |-> TRUE, err |-> NoErr, val |-> Some(index[output_id.commit])]

\* TxHashSet::get_unspent(output_id) over the index of the store; store_err tells
\* whether get_output_pos_height returns Err
get_unspent(be, lp, index, output_id, store_err) ==
  IF store_err THEN [ok |-> FALSE, err |-> [kind |-> "StoreErr", c |-> 0], val |-> NoData]
  ELSE IF output_id.commit \notin DOMAIN index THEN [ok |-> TRUE, err |-> NoErr, val |-> NoData]
  ELSE LET Found(out) ==
             IF out.some /\ OutputIdentifier(out.v) = output_id
             THEN [ok |-> TRUE, err |-> NoErr, val |-> Some(index[output_id.commit])]
             ELSE [ok |-> TRUE, err |-> NoErr, val |-> NoData]
       IN Found(get_data("output", be["output"], lp["output"], index[output_id.commit].pos))

\* a caller asks get_unspent
GetUnspent(output_id, store_err) ==
  /\ pc = "idle"
  /\ driver' = "get_unspent"
  /\ pre' = Snapshot
  /\ ret' = get_unspent(backend, last_pos, batch.output_pos, output_id, store_err)
  /\ committed' = FALSE
  /\ synced' = {}
  /\ done' = [NoDone EXCEPT !.arg = [output_id |-> output_id, store_err |-> store_err]]
  /\ UNCHANGED <<backend, disk, last_pos, bitmap_accumulator, batch, child_batch, ext, pc,
                 nops, res, fails, calls>>

NextIndex ==
  \/ InitOutputPosIndex
  \/ \E output_id \in OutputIds, store_err \in BOOLEAN : GetUnspent(output_id, store_err)

SpecIndex == InitIndex /\ [][NextIndex]_vars

(***************************************************************************)
(* Validation of an extension against a header.  A header records the     *)
(* roots its block's builder saw; prev_root is the root of the header MMR  *)
(* below the header.                                                       *)
(***************************************************************************)
\* Extension::roots
roots(s) == [pmmr |-> [m \in DataSet |-> root(s.be[m], s.pos[m])], bitmap_root |-> s.acc]

\* the roots the header named hash records
header_roots(cb, hash) == [pmmr |-> cb.snap[hash].roots, bitmap_root |-> cb.snap[hash].acc]

\* Extension::validate_roots(header), header.hash() = hash
validate_roots(s, hash) ==
  IF s.cb.blocks[hash].height = 0 THEN Ok(s, 0)
  ELSE IF roots(s) # header_roots(s.cb, hash) THEN Fail(s, "InvalidRoot", 0)
  ELSE Ok(s, 0)

RECURSIVE ChainUpTo(_, _)
\* the hashes of the headers from genesis up to the header named h
ChainUpTo(blocks, h) == IF h = 0 THEN <<>> ELSE ChainUpTo(blocks, blocks[h].prev) \o <<h>>

\* header.prev_root of the header named hash
prev_root(blocks, hash) == ChainUpTo(blocks, blocks[hash].prev)

\* HeaderExtension::validate_root(header), header.hash() = hash
validate_root(s, hash) ==
  IF s.cb.blocks[hash].height = 0 THEN Ok(s, 0)
  ELSE IF root(s.be["header"], s.hpos) # prev_root(s.cb.blocks, hash)
  THEN Fail(s, "InvalidRoot", 0)
  ELSE Ok(s, 0)

\* Extension::validate_mmrs; mmrs_valid tells whether every PMMR::validate returns Ok
validate_mmrs(s, mmrs_valid) ==
  IF mmrs_valid THEN Ok(s, 0) ELSE Fail(s, "InvalidTxHashSet", 0)

\* secp_static::commit_to_zero_value()
ZeroCommit == "commit_to_zero_value"

\* the checks of Extension::validate below the genesis test
SumChecks == {"validate_kernel_sums", "validate_token_kernel_sums"}

FullChecks ==
  {"verify_rangeproofs", "verify_token_rangeproofs", "verify_kernel_signatures",
   "verify_token_kernel_signatures"}

\* the same in the order of the calls
SumSteps == <<"validate_kernel_sums", "validate_token_kernel_sums">>

FullSteps ==
  <<"verify_rangeproofs", "verify_token_rangeproofs", "verify_kernel_signatures",
    "verify_token_kernel_signatures">>

RECURSIVE RunChecks(_, _, _, _)
\* the calls names[i..] of Extension::validate, each followed by ?; failing names
\* the one that returns Err
RunChecks(s, names, i, failing) ==
  IF i > Len(names) THEN Ok(s, 0)
  ELSE IF names[i] = failing THEN Fail(Step(s, names[i]), "Other", 0)
  ELSE RunChecks(Step(s, names[i]), names, i + 1, failing)

\* what validate returns when no check has failed
Sums(s, names) ==
  [output_sum |-> "utxo_sum", kernel_sum |-> "kernel_sum",
   token_sums |-> IF s.pos["token_kernel"] = 0 THEN <<>>
                  ELSE [key \in TokenTypes |-> "token_kernel_sum"],
   checks |-> SeqRange(names)]

\* Extension::validate that tests the height of the header it was given
ext_validate_by_header(s, hash, fast_validation, mmrs_valid, failing) ==
  LET names == IF fast_validation THEN SumSteps ELSE SumSteps \o FullSteps
      Verified(r) == IF ~r.ok THEN r ELSE Ok(r.s, Sums(r.s, names))
      Summed(r) ==
        IF ~r.ok THEN r
        ELSE IF r.s.cb.blocks[hash].height = 0
        THEN Ok(r.s, [output_sum |-> ZeroCommit, kernel_sum |-> ZeroCommit,
                      token_sums |-> <<>>, checks |-> {}])
        ELSE Verified(RunChecks(r.s, names, 1, failing))
      Sized(r) ==
        IF ~r.ok THEN r
        ELSE Summed(validate_sizes(Step(r.s, "validate_sizes"), r.s.cb.blocks[hash]))
      Rooted(r) == IF ~r.ok THEN r ELSE Sized(validate_roots(Step(r.s, "validate_roots"), hash))
  IN Rooted(validate_mmrs(Step(s, "validate_mmrs"), mmrs_valid))

\* Extension::validate that verifies rangeproofs and signatures also when
\* fast_validation is set
ext_validate_never_fast(s, hash, fast_validation, mmrs_valid, failing) ==
  LET names == SumSteps \o FullSteps
      Verified(r) == IF ~r.ok THEN r ELSE Ok(r.s, Sums(r.s, names))
      Summed(r) ==
        IF ~r.ok THEN r
        ELSE IF r.s.cb.blocks[r.s.head].height = 0
        THEN Ok(r.s, [output_sum |-> ZeroCommit, kernel_sum |-> ZeroCommit,
                      token_sums |-> <<>>, checks |-> {}])
        ELSE Verified(RunChecks(r.s, names, 1, failing))
      Sized(r) ==
        IF ~r.ok THEN r
        ELSE Summed(validate_sizes(Step(r.s, "validate_sizes"), r.s.cb.blocks[hash]))
      Rooted(r) == IF ~r.ok THEN r ELSE Sized(validate_roots(Step(r.s, "validate_roots"), hash))
  IN Rooted(validate_mmrs(Step(s, "validate_mmrs"), mmrs_valid))

\* Extension::validate(genesis, fast_validation, status, header), header.hash() =
\* hash; failing names the check of sums, rangeproofs or signatures that returns
\* Err when it is called, "" when each returns Ok; the value names the sums and, as
\* history, the checks that ran
ext_validate(s, hash, fast_validation, mmrs_valid, failing) ==
  LET names == IF fast_validation THEN SumSteps ELSE SumSteps \o FullSteps
      Verified(r) == IF ~r.ok THEN r ELSE Ok(r.s, Sums(r.s, names))
      Summed(r) ==
        IF ~r.ok THEN r
        ELSE IF r.s.cb.blocks[r.s.head].height = 0
        THEN Ok(r.s, [output_sum |-> ZeroCommit, kernel_sum |-> ZeroCommit,
                      token_sums |-> <<>>, checks |-> {}])
        ELSE Verified(RunChecks(r.s, names, 1, failing))
      Sized(r) ==
        IF ~r.ok THEN r
        ELSE Summed(validate_sizes(Step(r.s, "validate_sizes"), r.s.cb.blocks[hash]))
      Rooted(r) == IF ~r.ok THEN r ELSE Sized(validate_roots(Step(r.s, "validate_roots"), hash))
  IN Rooted(validate_mmrs(Step(s, "validate_mmrs"), mmrs_valid))

\* the closure calls extension.validate_roots for the header named hash
ValidateRoots(hash) ==
  /\ InClosure
  /\ driver \in {"extending", "extending_readonly"}
  /\ hash \in 1..Len(child_batch.blocks)
  /\ LET Validated(r) ==
           /\ Stepped(r, "validate_roots", 0, 0, 0, 0)
           /\ UNCHANGED <<backend, child_batch, ext>>
     IN Validated(validate_roots([S EXCEPT !.log = <<[op |-> "validate_roots",
                                                      header |-> hash]>>], hash))

\* the closure calls header_extension.validate_root for the header named hash
ValidateRoot(hash) ==
  /\ InClosure
  /\ hash \in 1..Len(child_batch.blocks)
  /\ LET Validated(r) ==
           /\ Stepped(r, "validate_root", 0, 0, 0, 0)
           /\ UNCHANGED <<backend, child_batch, ext>>
     IN Validated(validate_root([S EXCEPT !.log = <<[op |-> "validate_root",
                                                     header |-> hash]>>], hash))

\* the closure calls extension.validate for the header named hash
Validate(hash, fast_validation, mmrs_valid, failing) ==
  /\ InClosure
  /\ driver \in {"extending", "extending_readonly"}
  /\ hash \in 1..Len(child_batch.blocks)
  /\ LET Validated(r) ==
           /\ Stepped(r, "validate", 0, 0, 0, 0)
           /\ UNCHANGED <<backend, child_batch, ext>>
     IN Validated(ext_validate([S EXCEPT !.log = <<[op |-> "validate", header |-> hash,
                                                    fast_validation |-> fast_validation,
                                                    mmrs_valid |-> mmrs_valid,
                                                    failing |-> failing]>>],
                               hash, fast_validation, mmrs_valid, failing))

\* a backend of n leaves, each holding v
Leaves(n, v) ==
  [data |-> [i \in 1..n |-> v], leaf_set |-> {insertion_to_pmmr_index(i) : i \in 1..n},
   pruned |-> {}]

\* the numbers of leaves drawn for an MMR, and the sizes a header may record
LeafCounts == {0, 1}

RecordedCounts == [output : LeafCounts, kernel : LeafCounts, token : LeafCounts]

\* a header above genesis that records these numbers of leaves
HeaderOf(hs) ==
  [Genesis EXCEPT !.height = 1, !.prev = 1,
                  !.output_mmr_size = SizeOf(hs.output),
                  !.kernel_mmr_size = SizeOf(hs.kernel),
                  !.token_output_mmr_size = SizeOf(hs.token),
                  !.token_issue_proof_mmr_size = SizeOf(hs.token),
                  !.token_kernel_mmr_size = SizeOf(hs.token)]

\* what the builder of that header saw
SeenBy(hs) ==
  LET n == [m \in DataSet |->
              CASE m \in {"output", "rproof"} -> hs.output
                [] m = "kernel" -> hs.kernel
                [] OTHER -> hs.token]
  IN Observed([m \in DataSet |-> Leaves(n[m], 1)], [m \in DataSet |-> SizeOf(n[m])],
              AccInit({i \in {0} : hs.output = 1}, hs.output))

\* a closure of extending at its last call: the extension is over MMRs of any
\* sizes, with its head at genesis or at a header above it that records any
\* sizes, and the header MMR holds one or two headers
InitValidate ==
  \E cnt \in [DataSet -> LeafCounts], v \in {1, 2}, hs \in RecordedCounts, head \in {1, 2}, nh \in {1, 2} :
    /\ v = 2 => cnt["output"] = 1
    /\ backend = [m \in AllMMRs |->
                    IF m = "header" THEN Leaves(nh, 1)
                    ELSE IF m = "output" THEN Leaves(cnt[m], v) ELSE Leaves(cnt[m], 1)]
    /\ disk = backend
    /\ last_pos = [m \in AllMMRs |-> IF m = "header" THEN SizeOf(nh) ELSE SizeOf(cnt[m])]
    /\ bitmap_accumulator = AccInit({i \in {0} : cnt["output"] = 1}, cnt["output"])
    /\ batch = [EmptyBatch EXCEPT !.blocks = Append(@, HeaderOf(hs)),
                                  !.snap = Append(@, SeenBy(hs)), !.head = head]
    /\ child_batch = batch
    /\ ext = [NoExt EXCEPT !.pos = [m \in DataSet |-> SizeOf(cnt[m])],
                           !.hpos = SizeOf(nh), !.head = head, !.hhead = nh,
                           !.acc = bitmap_accumulator]
    /\ pc = "closure"
    /\ driver = "extending"
    /\ nops = MaxOps - 1
    /\ res = NoRes
    /\ ret = NoRet
    /\ fails = 0
    /\ calls = 1
    /\ pre = Snapshot
    /\ committed = FALSE
    /\ synced = {}
    /\ done = NoDone

NextValidate ==
  \/ \E hash \in {1, 2} : ValidateRoots(hash)
  \/ \E hash \in {1, 2} : ValidateSizes(hash)
  \/ \E hash \in {1, 2} : ValidateRoot(hash)
  \/ \E hash \in {1, 2}, fast_validation \in BOOLEAN, mmrs_valid \in BOOLEAN, failing \in {""} \cup SumChecks \cup FullChecks :
       Validate(hash, fast_validation, mmrs_valid, failing)

SpecValidate == InitValidate /\ [][NextValidate]_vars

(***************************************************************************)
(* TxHashSet::open over the files of a chain.  What the bytes of the first *)
(* kernel decode to depends on the protocol version they are read under:   *)
(* nothing ("none"), a kernel that fails its verification ("bad") or a     *)
(* kernel that passes it ("good").  Every PMMRHandle::new returns Ok.      *)
(***************************************************************************)
Decodings == {"none", "bad", "good"}

\* the versions open tries, oldest first
KernelVersionsOldestFirst == <<1, 2>>

\* the versions open tries for the kernel MMR, in its order
KernelVersions == <<2, 1>>

\* ReadonlyPMMR::at(&handle.backend, 1).get_data(1) of the kernel handle opened
\* under this version
first_kernel(file, version) ==
  IF file.decodes[version] = "none" \/ ~get_data("kernel", file, 1, 1).some THEN NoData
  ELSE Some([verifies |-> file.decodes[version] = "good"])

RECURSIVE probe_kernel(_, _, _)
\* TxHashSet::open, the loop over the versions from versions[i] on: the version of
\* maybe_kernel_handle, or None
probe_kernel(file, versions, i) ==
  IF i > Len(versions) THEN NoData
  ELSE IF SizeOf(Len(file.data)) = 0 THEN Some(versions[i])
  ELSE LET Read(kernel) ==
             IF kernel.some /\ kernel.v.verifies THEN Some(versions[i])
             ELSE probe_kernel(file, versions, i + 1)
       IN Read(first_kernel(file, versions[i]))

\* TxHashSet::open: the version the kernel MMR is opened under, or the Err
open(files) ==
  LET Chosen(maybe_kernel_handle) ==
        IF maybe_kernel_handle.some
        THEN [ok |-> TRUE, err |-> NoErr, val |-> maybe_kernel_handle.v]
        ELSE [ok |-> FALSE, err |-> [kind |-> "TxHashSetErr", c |-> "failed to open kernel PMMR"],
              val |-> 0]
  IN Chosen(probe_kernel(files["kernel"], KernelVersions, 1))

\* the files of a chain, the first kernel decoding in any way under either
\* version, and no TxHashSet yet
InitOpen ==
  /\ \E s \in Chains, decodes \in [{1, 2} -> Decodings] :
       /\ disk = [m \in AllMMRs |->
                    IF m = "kernel"
                    THEN [data |-> s.be[m].data, leaf_set |-> s.be[m].leaf_set,
                          pruned |-> s.be[m].pruned, decodes |-> decodes]
                    ELSE s.be[m]]
       /\ batch = s.cb
  /\ backend = [m \in AllMMRs |-> EmptyBackend]
  /\ last_pos = [m \in AllMMRs |-> 0]
  /\ bitmap_accumulator = <<>>
  /\ child_batch = EmptyBatch
  /\ ext = NoExt
  /\ pc = "closed"
  /\ driver = "none"
  /\ nops = 0
  /\ res = NoRes
  /\ ret = NoRet
  /\ fails = 0
  /\ calls = 0
  /\ pre = Snapshot
  /\ committed = FALSE
  /\ synced = {}
  /\ done = NoDone

\* a caller opens the TxHashSet; on Ok it has the handles, each last_pos the
\* unpruned size of its files, and the accumulator of the output leaves
Open ==
  /\ pc = "closed"
  /\ driver = "none"
  /\ driver' = "open"
  /\ ret' = open(disk)
  /\ pre' = Snapshot
  /\ IF ret'.ok
     THEN /\ pc' = "idle"
          /\ backend' = disk
          /\ last_pos' = [m \in AllMMRs |-> SizeOf(Len(disk[m].data))]
          /\ bitmap_accumulator' =
               AccInit(leaf_idx_iter(disk["output"], 0), Len(disk["output"].data))
     ELSE UNCHANGED <<pc, backend, last_pos, bitmap_accumulator>>
  /\ UNCHANGED <<disk, batch, child_batch, ext, nops, res, fails, calls, committed, synced,
                 done>>

NextOpen == Open

SpecOpen == InitOpen /\ [][NextOpen]_vars

(***************************************************************************)
(* Lookup of a kernel by its excess.  A kernel leaf holds the excess.  The *)
(* indexes are u64; None is an absent Option.  max_index + 1 overflows at  *)
(* u64::MAX: a build with overflow checks panics there, one without wraps.  *)
(***************************************************************************)
None == [some |-> FALSE]

OptionU64 == {None} \cup {Some(n) : n \in 0..MaxU64}

unwrap_or(o, default) == IF o.some THEN o.v ELSE default

NotFound == [panic |-> FALSE, val |-> NoData]

RECURSIVE ScanDown(_, _, _, _, _, _)
\* the while loop of find_kernel, entered with this index
ScanDown(m, b, lp, excess, min_index, index) ==
  IF ~(index > min_index) THEN NotFound
  ELSE LET Read(kernel) ==
             IF kernel.some /\ kernel.v = excess
             THEN [panic |-> FALSE, val |-> Some([kernel |-> kernel.v, pos |-> index - 1])]
             ELSE ScanDown(m, b, lp, excess, min_index, index - 1)
       IN Read(get_data(m, b, lp, index - 1))

\* TxHashSet::find_kernel and find_token_kernel over the MMR m
find_kernel(m, b, lp, excess, min_index, max_index, overflow_checks) ==
  IF unwrap_or(max_index, lp) = MaxU64
  THEN IF overflow_checks THEN [panic |-> TRUE, val |-> NoData]
       ELSE ScanDown(m, b, lp, excess, unwrap_or(min_index, 1), 0)
  ELSE ScanDown(m, b, lp, excess, unwrap_or(min_index, 1), unwrap_or(max_index, lp) + 1)

RECURSIVE Pushes(_, _, _)
\* the backend and size of MMR m after the leaves xs[i..] are pushed
Pushes(m, h, xs) ==
  IF xs = <<>> THEN h
  ELSE LET Next1(p) == Pushes(m, [b |-> p.b, lp |-> p.lp], Tail(xs))
       IN Next1(push(m, h.b, h.lp, Head(xs)))

\* the kernels a chain may hold in a kernel MMR, by their excess
KernelLists == UNION {[1..n -> {1, 2}] : n \in 0..(MaxBlocks + 1)}

\* a TxHashSet whose kernel and token kernel MMRs hold any kernels
InitFind ==
  /\ \E ks \in KernelLists, tks \in KernelLists :
       LET k == Pushes("kernel", [b |-> EmptyBackend, lp |-> 0], ks)
           tk == Pushes("token_kernel", [b |-> EmptyBackend, lp |-> 0], tks)
       IN /\ backend = [m \in AllMMRs |->
                          CASE m = "kernel" -> k.b
                            [] m = "token_kernel" -> tk.b
                            [] m = "header" -> GenesisHeaders
                            [] OTHER -> EmptyBackend]
          /\ last_pos = [m \in AllMMRs |->
                           CASE m = "kernel" -> k.lp
                             [] m = "token_kernel" -> tk.lp
                             [] m = "header" -> 1
                             [] OTHER -> 0]
  /\ disk = backend
  /\ bitmap_accumulator = <<>>
  /\ batch = EmptyBatch
  /\ child_batch = EmptyBatch
  /\ ext = NoExt
  /\ pc = "idle"
  /\ driver = "none"
  /\ nops = 0
  /\ res = NoRes
  /\ ret = NoRet
  /\ fails = 0
  /\ calls = 0
  /\ pre = Snapshot
  /\ committed = FALSE
  /\ synced = {}
  /\ done = NoDone

\* a caller asks find_kernel (m the kernel MMR) or find_token_kernel (m the token
\* kernel MMR)
FindKernel(m, excess, min_index, max_index, overflow_checks) ==
  /\ pc = "idle"
  /\ driver = "none"
  /\ driver' = IF m = "kernel" THEN "find_kernel" ELSE "find_token_kernel"
  /\ pre' = Snapshot
  /\ ret' = find_kernel(m, backend[m], last_pos[m], excess, min_index, max_index,
                        overflow_checks)
  /\ done' = [NoDone EXCEPT !.arg = [m |-> m, excess |-> excess, min_index |-> min_index,
                                     max_index |-> max_index,
                                     overflow_checks |-> overflow_checks]]
  /\ UNCHANGED <<backend, disk, last_pos, bitmap_accumulator, batch, child_batch, ext, pc,
                 nops, res, fails, calls, committed, synced>>

NextFind ==
  \E m \in {"kernel", "token_kernel"}, excess \in {1, 2}, min_index \in OptionU64, max_index \in OptionU64, overflow_checks \in BOOLEAN :
    FindKernel(m, excess, min_index, max_index, overflow_checks)

SpecFind == InitFind /\ [][NextFind]_vars

(***************************************************************************)
(* Chain data of an older version: blocks stored with a legacy input       *)
(* bitmap instead of a spent index, or with neither.                       *)
(***************************************************************************)
\* the store cb with the blocks of old stored the legacy way: no spent index, an
\* input bitmap for the blocks of kept and a token input bitmap for those of tkept
LegacyStore(cb, old, kept, tkept) ==
  [cb EXCEPT
     !.spent_index = [h \in (DOMAIN cb.spent_index) \ old |-> cb.spent_index[h]],
     !.token_spent_index =
        [h \in (DOMAIN cb.token_spent_index) \ old |-> cb.token_spent_index[h]],
     !.input_bitmap = [h \in kept |-> SeqRange(PosOf(cb.spent_index[h]))],
     !.token_input_bitmap = [h \in tkept |-> SeqRange(PosOf(cb.token_spent_index[h]))]]

\* a TxHashSet as a chain left it, over a store that holds some of the blocks the
\* legacy way
InitLegacy ==
  /\ \E s \in Chains :
       \E old \in SUBSET (DOMAIN s.cb.spent_index) :
         \E kept \in SUBSET old, tkept \in SUBSET old :
           /\ backend = s.be
           /\ last_pos = [m \in AllMMRs |-> IF m # "header" THEN s.pos[m] ELSE s.hpos]
           /\ bitmap_accumulator = s.acc
           /\ batch = LegacyStore(s.cb, old, kept, tkept)
  /\ disk = backend
  /\ child_batch = EmptyBatch
  /\ ext = NoExt
  /\ pc = "idle"
  /\ driver = "none"
  /\ nops = 0
  /\ res = NoRes
  /\ ret = NoRet
  /\ fails = 0
  /\ calls = 0
  /\ pre = Snapshot
  /\ committed = FALSE
  /\ synced = {}
  /\ done = NoDone

\* extending_readonly with closures that rewind, and compaction over the legacy
\* bitmaps alone
NextLegacy ==
  \/ ExtendingReadonlyBegin
  \/ \E target \in 1..(MaxBlocks + 1) : Rewind(target)
  \/ \E ok \in BOOLEAN : ExtendingReadonlyEnd(ok)
  \/ \E horizon_header \in 1..(MaxBlocks + 1) : Compact(horizon_header, FALSE)

SpecLegacy == InitLegacy /\ [][NextLegacy]_vars

\* extending_readonly over such chain data with closures that apply blocks and
\* rewind
NextLegacyBlocks ==
  \/ ExtendingReadonlyBegin
  \/ \E body \in Bodies : ApplyBlock(body, 0)
  \/ \E target \in 1..(MaxBlocks + 1) : Rewind(target)
  \/ \E ok \in BOOLEAN : ExtendingReadonlyEnd(ok)

SpecLegacyBlocks == InitLegacy /\ [][NextLegacyBlocks]_vars

(***************************************************************************)
(* Verification of the kernel signatures and of the rangeproofs of an      *)
(* extension.  The batch primitives are calls whose result is an input:    *)
(* fail_at is the call that returns Err, 0 when every call returns Ok.     *)
(***************************************************************************)
\* KERNEL_BATCH_SIZE of verify_kernel_signatures (5_000), scaled down
KERNEL_BATCH_SIZE == 2
\* the batch size of verify_rangeproofs (1_000), scaled down
RPROOF_BATCH_SIZE == 2
\* leaves an MMR under verification may hold
MaxLeaves == 5

\* PMMR::unpruned_size
unpruned_size(lp) == lp

\* PMMR::leaf_pos_iter: the positions of the leaf set, in increasing order
leaf_pos_iter(b) ==
  [i \in 1..Cardinality(b.leaf_set) |->
     CHOOSE q \in b.leaf_set : Cardinality({r \in b.leaf_set : r < q}) = i - 1]

\* what a verification returns: its result and the calls of the batch primitive
\* it made, in order
Verified(made) == [ok |-> TRUE, err |-> NoErr, log |-> made]

Refused(kind, made) == [ok |-> FALSE, err |-> [kind |-> kind, c |-> 0], log |-> made]

\* a loop that verifies a batch only when it is full
KernelFlushWhenFull(len, n, size) == len >= KERNEL_BATCH_SIZE

\* verify_kernel_signatures: the test that sends the batch to batch_sig_verify
KernelFlush(len, n, size) == len >= KERNEL_BATCH_SIZE \/ n >= size

RECURSIVE KernelLoop(_, _, _, _, _, _)
\* verify_kernel_signatures, the loop at position n with tx_kernels collected and
\* the calls in made behind it
KernelLoop(b, lp, n, tx_kernels, made, fail_at) ==
  IF n >= unpruned_size(lp) + 1 THEN Verified(made)
  ELSE LET kernel == get_data("kernel", b, lp, n)
           Flushed(ks) ==
             IF ~KernelFlush(Len(ks), n, unpruned_size(lp))
             THEN KernelLoop(b, lp, n + 1, ks, made, fail_at)
             ELSE LET call == [op |-> "batch_sig_verify", items |-> ks, n |-> n]
                  IN IF Len(made) + 1 = fail_at
                     THEN Refused("BatchVerify", Append(made, call))
                     ELSE KernelLoop(b, lp, n + 1, <<>>, Append(made, call), fail_at)
       IN IF ~is_leaf(n) THEN Flushed(tx_kernels)
          ELSE IF ~kernel.some THEN Refused("TxKernelNotFound", made)
          ELSE Flushed(Append(tx_kernels, kernel.v))

\* Extension::verify_kernel_signatures
verify_kernel_signatures(b, lp, fail_at) == KernelLoop(b, lp, 1, <<>>, <<>>, fail_at)

RECURSIVE RproofLoop(_, _, _, _, _, _, _)
\* verify_rangeproofs, the loop at the i-th position of leaf_pos_iter with the
\* pairs collected in proofs, and the flush of the remainder after it
RproofLoop(be, lp, leaves, i, proofs, made, fail_at) ==
  LET Call(ps, n) == [op |-> "batch_verify_proofs", items |-> ps, n |-> n]
  IN IF i > Len(leaves)
     THEN IF proofs = <<>> THEN Verified(made)
          ELSE IF Len(made) + 1 = fail_at
               THEN Refused("BatchVerify", Append(made, Call(proofs, 0)))
               ELSE Verified(Append(made, Call(proofs, 0)))
     ELSE LET pos == leaves[i]
              output == get_data("output", be["output"], lp["output"], pos)
              proof == get_data("rproof", be["rproof"], lp["rproof"], pos)
              Collected(ps) ==
                IF Len(ps) < RPROOF_BATCH_SIZE
                THEN RproofLoop(be, lp, leaves, i + 1, ps, made, fail_at)
                ELSE IF Len(made) + 1 = fail_at
                     THEN Refused("BatchVerify", Append(made, Call(ps, pos)))
                     ELSE RproofLoop(be, lp, leaves, i + 1, <<>>,
                                     Append(made, Call(ps, pos)), fail_at)
          IN IF ~output.some THEN Refused("OutputNotFound", made)
             ELSE IF ~proof.some THEN Refused("RangeproofNotFound", made)
             ELSE Collected(Append(proofs, [commit |-> output.v, proof |-> proof.v,
                                          pos |-> pos]))

\* Extension::verify_rangeproofs
verify_rangeproofs(be, lp, fail_at) ==
  RproofLoop(be, lp, leaf_pos_iter(be["output"]), 1, <<>>, <<>>, fail_at)

\* the positions of the first n leaves
LeafPositions(n) == {insertion_to_pmmr_index(k) : k \in 1..n}

\* a backend that holds n leaves, the k-th with payload k, with this leaf set
Filled(n, leaves) == [data |-> [k \in 1..n |-> k], leaf_set |-> leaves, pruned |-> {}]

\* an extension over MMR files as an archive may bring them: a kernel MMR whose
\* data file may end below the size, an output MMR with any leaves unpruned and a
\* leaf set that may name a position the data file does not reach, and a
\* rangeproof MMR whose leaf set may lack a position of the output leaf set
InitVerify ==
  /\ \E nk \in 0..MaxLeaves, short \in 0..1, no \in 0..(MaxLeaves - 1) :
       \E ls \in SUBSET LeafPositions(no + 1) :
         \E rls \in {ls} \cup {ls \ {p} : p \in ls} :
           /\ nk >= short
           /\ backend = [m \in AllMMRs |->
                           CASE m = "kernel" -> Filled(nk - short, {})
                             [] m = "output" -> Filled(no, ls)
                             [] m = "rproof" -> Filled(no, rls)
                             [] m = "header" -> GenesisHeaders
                             [] OTHER -> EmptyBackend]
           /\ last_pos = [m \in AllMMRs |->
                            CASE m = "kernel" -> SizeOf(nk)
                              [] m \in {"output", "rproof"} -> SizeOf(no)
                              [] m = "header" -> 1
                              [] OTHER -> 0]
  /\ disk = backend
  /\ bitmap_accumulator = <<>>
  /\ batch = EmptyBatch
  /\ child_batch = EmptyBatch
  /\ ext = NoExt
  /\ pc = "idle"
  /\ driver = "none"
  /\ nops = 0
  /\ res = NoRes
  /\ ret = NoRet
  /\ fails = 0
  /\ calls = 0
  /\ pre = Snapshot
  /\ committed = FALSE
  /\ synced = {}
  /\ done = NoDone

\* a verification of the extension has returned r
VerifyCalled(name, r, fail_at) ==
  /\ pc = "idle"
  /\ driver = "none"
  /\ driver' = name
  /\ pre' = Snapshot
  /\ ret' = [ok |-> r.ok, err |-> r.err]
  /\ res' = [NoRes EXCEPT !.ok = r.ok, !.err = r.err, !.op = name, !.log = r.log]
  /\ done' = [NoDone EXCEPT !.arg = fail_at]
  /\ UNCHANGED <<backend, disk, last_pos, bitmap_accumulator, batch, child_batch, ext, pc,
                 nops, fails, calls, committed, synced>>

\* validate calls verify_kernel_signatures
VerifyKernelSignatures(fail_at) ==
  VerifyCalled("verify_kernel_signatures",
               verify_kernel_signatures(backend["kernel"], last_pos["kernel"], fail_at),
               fail_at)

\* validate calls verify_rangeproofs
VerifyRangeproofs(fail_at) ==
  VerifyCalled("verify_rangeproofs", verify_rangeproofs(backend, last_pos, fail_at),
               fail_at)

NextVerify ==
  \/ \E fail_at \in 0..3 : VerifyKernelSignatures(fail_at)
  \/ \E fail_at \in 0..3 : VerifyRangeproofs(fail_at)

SpecVerify == InitVerify /\ [][NextVerify]_vars

(***************************************************************************)
(* Properties of the drivers.                                              *)
(***************************************************************************)
\* the persistent state is what it was when the driver was called, and the child
\* batch was not committed
Untouched ==
  /\ disk = pre.disk
  /\ last_pos = pre.last_pos
  /\ bitmap_accumulator = pre.bitmap_accumulator
  /\ batch = pre.batch
  /\ ~committed

\* no backend holds a change that is not in its files
AllDiscarded == \A m \in AllMMRs : backend[m] = disk[m]

AfterExtending == pc = "idle" /\ driver = "extending"

\* C1: when the closure passed to extending returns Err, extending returns that Err,
\* the seven data backends (and the header backend) are discarded, the files, every
\* last_pos and the bitmap accumulator are as before the call, and the child batch
\* was never committed, so the parent batch shows none of the closure's writes
C1_ErrDiscardsAll ==
  (AfterExtending /\ ~done.closure_ok) =>
    /\ ret = ClosureErr
    /\ AllDiscarded
    /\ Untouched

\* an extending whose closure applied a block and then returned Err has returned
C1_Witness == AfterExtending /\ ~done.closure_ok /\ done.applied >= 1

\* C2: when extending returns, either the child batch is committed, all seven
\* backends are synced and the cursors and the accumulator hold the extension's
\* final values, or neither batch, files, cursors nor accumulator have changed
C2_NoHalfCommitted ==
  AfterExtending =>
    \/ /\ committed
       /\ synced = DataSet
       /\ \A m \in DataSet : disk[m] = backend[m] /\ last_pos[m] = done.sizes[m]
       /\ bitmap_accumulator = done.acc
    \/ /\ batch = pre.batch
       /\ disk = pre.disk
       /\ last_pos = pre.last_pos
       /\ bitmap_accumulator = pre.bitmap_accumulator

\* C3: in extending and in header_extending no backend is synced before the child
\* batch is committed, and a last_pos moves only after its own backend is synced
C3_CommitSyncCursorOrder ==
  /\ synced # {} => committed
  /\ \A m \in AllMMRs :
       (disk[m] # pre.disk[m] \/ last_pos[m] # pre.last_pos[m]) =>
         committed /\ m \in synced

\* an extending has stopped at a token sync that failed: the output cursor has
\* moved, the token cursors have not reached the sizes of the extension
C3_Witness ==
  /\ AfterExtending
  /\ ret = IoErr
  /\ committed
  /\ "kernel" \in synced
  /\ "token_output" \notin synced
  /\ last_pos["output"] # pre.last_pos["output"]
  /\ last_pos["token_output"] # done.sizes["token_output"]

\* C4: when the closure called force_rollback and returned Ok, extending returns Ok
\* and has discarded the backends, left files, cursors and accumulator as before
\* the call and never committed the child batch
C4_RollbackDiscardsAll ==
  (AfterExtending /\ done.closure_ok /\ done.rollback) =>
    /\ ret = NoRet
    /\ AllDiscarded
    /\ Untouched

\* an extending whose closure applied a block, called force_rollback and returned
\* Ok has returned
C4_Witness == AfterExtending /\ done.closure_ok /\ done.rollback /\ done.applied >= 1

\* C5: after extending_readonly, utxo_view or rewindable_kernel_view the files, the
\* cursors, the accumulator and the batch are as before the call, no batch was
\* committed, no backend holds a change (an extending_readonly that called its
\* closure has discarded them all, the others have touched none) and the closure's
\* result is what is returned
C5_ReadonlyChangesNothing ==
  (pc = "idle" /\ driver \in {"extending_readonly", "utxo_view", "rewindable_kernel_view"}) =>
    /\ Untouched
    /\ IF driver = "extending_readonly" /\ ret.err.kind # "Other"
       THEN AllDiscarded
       ELSE backend = pre.backend
    /\ ret.err.kind # "Other" => ret = (IF done.closure_ok THEN NoRet ELSE ClosureErr)

\* an extending_readonly whose closure applied a block has returned
C5_Witness == pc = "idle" /\ driver = "extending_readonly" /\ done.applied >= 1

(***************************************************************************)
(* Properties of the Extension.                                            *)
(***************************************************************************)
InExtension == pc = "closure" /\ driver \in {"extending", "extending_readonly"}

\* C6: after a successful rewind to the header of b0 the extension shows the seven
\* sizes, the seven roots, the unpruned leaf positions and the accumulator it showed
\* when b0 was applied (nothing at all for genesis), whether the blocks above b0
\* were applied in this extending or in committed ones
C6_RoundTrip ==
  (InExtension /\ res.op = "rewind" /\ res.ok) =>
    Observed(backend, ext.pos, ext.acc) = child_batch.snap[ext.head]

\* the round trip in the extendings that no failed commit or sync preceded
RoundTripWithoutIoFailure == fails = 0 => C6_RoundTrip

\* the output and rangeproof views, and the token ones, have the same size and the
\* same unpruned leaf positions
Paired(be, pos) ==
  \A pair \in {<<"output", "rproof">>, <<"token_output", "token_rproof">>} :
    /\ pos[pair[1]] = pos[pair[2]]
    /\ {p \in be[pair[1]].leaf_set : p <= pos[pair[1]]}
         = {p \in be[pair[2]].leaf_set : p <= pos[pair[2]]}

\* C7: in every state of an Extension and of the TxHashSet the output and
\* rangeproof MMRs have the same size and the same unpruned leaf positions, and so
\* have the token-output and token-rangeproof MMRs
C7_Pairing ==
  /\ InExtension => Paired(backend, ext.pos)
  /\ Paired(backend, last_pos)

\* the pairing in the extendings that no failed commit or sync preceded
PairingWithoutIoFailure == fails = 0 => C7_Pairing

\* the indices of the unpruned output leaves of the view at pos
UnspentIdx(be, pos) ==
  {i \in 0..(n_leaves(pos) - 1) : insertion_to_pmmr_index(i + 1) \in be.leaf_set}

\* the accumulator holds exactly the chunks built from scratch over the view
FromScratch(acc, be, pos) ==
  /\ AccBits(acc) = UnspentIdx(be, pos)
  /\ acc = AccInit(UnspentIdx(be, pos), n_leaves(pos))

\* C8: after every successful apply_block or rewind of an extension, and in the
\* TxHashSet after every extending that returned Ok without rollback, bit i of the
\* accumulator is set iff the i-th output leaf is unpruned, no bit is set at or
\* beyond the number of output leaves, and the accumulator is the one built from
\* scratch over the output MMR
C8_AccumulatorFromScratch ==
  /\ (InExtension /\ res.op \in {"apply_block", "rewind"} /\ res.ok) =>
       FromScratch(ext.acc, backend["output"], ext.pos["output"])
  /\ (AfterExtending /\ ret.ok /\ committed) =>
       FromScratch(bitmap_accumulator, backend["output"], last_pos["output"])

\* the accumulator in the extendings that no failed commit or sync preceded
AccumulatorWithoutIoFailure == fails = 0 => C8_AccumulatorFromScratch

\* the sizes a header records, MMR by MMR
HeaderSizes(header) ==
  [m \in DataSet |->
     CASE m \in {"output", "rproof"} -> header.output_mmr_size
       [] m = "kernel" -> header.kernel_mmr_size
       [] m \in {"token_output", "token_rproof"} -> header.token_output_mmr_size
       [] m = "token_issue_proof" -> header.token_issue_proof_mmr_size
       [] OTHER -> header.token_kernel_mmr_size]

\* extending returned Ok without rollback for a closure that did nothing but apply
\* blocks, at least one, all with success
AppliedAndCommitted ==
  AfterExtending /\ ret.ok /\ ~done.rollback /\ done.clean /\ done.applied >= 1

CursorsMatchHeader ==
  /\ \A m \in DataSet : last_pos[m] = done.sizes[m]
  /\ HeaderSizes(batch.blocks[batch.head]) = [m \in DataSet |-> last_pos[m]]

\* C9 as claimed: after extending returned Ok without rollback for a closure that
\* applied blocks b1..bn, the seven last_pos are the sizes the extension had at
\* closure exit and the sizes recorded in the header of bn
C9_CursorsMatchHeaderAsClaimed == AppliedAndCommitted => CursorsMatchHeader

\* C9: after extending returned Ok without rollback for a closure that applied
\* blocks b1..bn (above genesis) and then had validate_sizes accept the header of
\* bn, the seven last_pos are the sizes the extension had at closure exit and the
\* sizes recorded in the header of bn
C9_CursorsMatchValidatedHeader ==
  (AppliedAndCommitted /\ done.validated) => CursorsMatchHeader

\* an extending that applied a block with outputs and validated its sizes has
\* been committed
C9_Witness ==
  /\ AppliedAndCommitted
  /\ done.validated
  /\ last_pos["output"] > pre.last_pos["output"]

\* C10: apply_block fails with DuplicateCommitment(C) when an output of the block
\* has a commitment C that the index places at an unpruned output leaf carrying C,
\* or that an earlier output of the block has (C the first such); no other
\* apply_block fails with DuplicateCommitment, so a commitment whose earlier output
\* is spent is accepted
C10_DuplicateCommitment ==
  (InExtension /\ res.op = "apply_block") =>
    /\ res.dup # 0 =>
         ~res.ok /\ res.err = [kind |-> "DuplicateCommitment", c |-> res.dup]
    /\ res.err.kind = "DuplicateCommitment" => (res.dup # 0 \/ res.tdup # 0)

\* the duplicate check in the extendings that no failed commit or sync preceded
DuplicateWithoutIoFailure == fails = 0 => C10_DuplicateCommitment

(***************************************************************************)
(* Properties of apply_block failures.                                     *)
(***************************************************************************)
\* the closure of the extending or extending_readonly that returned last returned
\* the Err of kind kind that its apply_block returned
ApplyBlockFailed(kind) ==
  /\ pc = "idle"
  /\ driver \in {"extending", "extending_readonly"}
  /\ done.failed.op = "apply_block"
  /\ done.failed.err.kind = kind

\* C11: when apply_block fails with DuplicateCommitment and the driver has returned,
\* no mutation remains: the backends hold nothing beyond their files, and the files,
\* the cursors, the accumulator and the index batch are as before the call, whatever
\* the block had pushed and indexed before it met the duplicate
C11_DuplicateLeavesNoMutation ==
  ApplyBlockFailed("DuplicateCommitment") => AllDiscarded /\ Untouched

\* the first apply_block of an extending on empty MMRs failed with
\* DuplicateCommitment: the duplicate followed an output the block had pushed
C11_Witness ==
  /\ ApplyBlockFailed("DuplicateCommitment")
  /\ driver = "extending"
  /\ done.applied = 0
  /\ pre.backend["output"] = EmptyBackend
  /\ pre.batch.output_pos = <<>>

\* the inputs of the block apply_block has just applied are spent: their
\* commitments have no index entry and the positions recorded for them in the
\* spent index hold no unpruned output leaf
InputsSpent ==
  LET b == child_batch.blocks[ext.head]
      spent == child_batch.spent_index[ext.head]
  IN /\ Len(spent) = Len(b.inputs)
     /\ \A i \in 1..Len(b.inputs) :
          /\ b.inputs[i] \notin DOMAIN child_batch.output_pos
          /\ spent[i].pos \notin backend["output"].leaf_set

\* C12: apply_block fails with AlreadySpent(C) when an input, at its turn after the
\* outputs of the block, has a commitment C with no index entry or with an index
\* entry at a pruned position (C the first such); after a successful apply_block
\* the commitments of its inputs have no index entry and their leaves are pruned,
\* so no later block, later apply_block or later input of the block spends them
\* again
C12_AlreadySpent ==
  (InExtension /\ res.op = "apply_block") =>
    /\ res.gone # 0 => ~res.ok /\ res.err = [kind |-> "AlreadySpent", c |-> res.gone]
    /\ res.ok => InputsSpent

\* an apply_block has failed with AlreadySpent for an input whose output an
\* earlier apply_block of the extension, or an earlier input of the block, had
\* spent: the leaf is on file, pruned in the extension and not indexed any more
C12_Witness ==
  /\ InExtension
  /\ res.op = "apply_block"
  /\ res.err = [kind |-> "AlreadySpent", c |-> 1]
  /\ res.gone = 1
  /\ fails = 0
  /\ 1 \notin DOMAIN child_batch.output_pos
  /\ 1 \in DOMAIN batch.output_pos
  /\ batch.output_pos[1].pos \in disk["output"].leaf_set
  /\ batch.output_pos[1].pos \notin backend["output"].leaf_set

\* the leaves of the token-issue-proof MMR viewed at pos that carry token type key
IssueLeaves(be, pos, key) ==
  {i \in 1..Min(n_leaves(pos["token_issue_proof"]), Len(be["token_issue_proof"].data)) :
     be["token_issue_proof"].data[i] = key}

\* one leaf for each issue of a block of the chain below h, and at most one a type
OneLeafPerIssue(be, pos, blocks, h) ==
  \A key \in TokenTypes :
    /\ Cardinality(IssueLeaves(be, pos, key)) = Cardinality(IssuedOnChain(blocks, h, key))
    /\ Cardinality(IssueLeaves(be, pos, key)) <= 1

\* C13: the token-issue-proof MMR holds at most one leaf for a token type and
\* exactly one for each type issued by a block of the chain, in an extension after
\* every successful apply_block and rewind and in the TxHashSet between the
\* drivers; apply_block fails with DuplicateTokenKey(T) when a token output, the
\* steps before it done, issues a type T issued by a block of the chain or by an
\* earlier token output of the block, and in no other case, so a type whose
\* issuing block was rewound is issued again
C13_OneIssuePerTokenType ==
  /\ (InExtension /\ res.op \in {"apply_block", "rewind"} /\ res.ok) =>
       OneLeafPerIssue(backend, ext.pos, child_batch.blocks, ext.head)
  /\ pc = "idle" => OneLeafPerIssue(backend, last_pos, batch.blocks, batch.head)
  /\ (InExtension /\ res.op = "apply_block") =>
       /\ (res.tkey # 0 /\ res.dup = 0 /\ res.gone = 0 /\ res.tdup = 0) =>
            ~res.ok /\ res.err = [kind |-> "DuplicateTokenKey", c |-> res.tkey]
       /\ res.err.kind = "DuplicateTokenKey" => res.tkey # 0

\* the token issues in the extendings that no failed commit or sync preceded
OneIssueWithoutIoFailure == fails = 0 => C13_OneIssuePerTokenType

(***************************************************************************)
(* Properties of the kernel MMRs.                                          *)
(***************************************************************************)
KernelMMRs == {"kernel", "token_kernel"}

IsPrefix(a, b) == Len(a) <= Len(b) /\ a = SubSeq(b, 1, Len(a))

\* no leaf of a kernel MMR is pruned or compacted
NeverPruned(be) ==
  \A m \in KernelMMRs : be[m].leaf_set = {} /\ be[m].pruned = {}

\* every leaf of the kernel MMRs viewed at pos is readable
Readable(be, pos) ==
  \A m \in KernelMMRs :
    \A p \in 1..pos[m] : is_leaf(p) => get_data(m, be[m], pos[m], p).some

\* a step of apply_block appends to the kernel MMRs, a step of rewind truncates
\* them, a step of compact leaves them alone
AppendOrTruncate ==
  \A m \in KernelMMRs :
    /\ (pc = "closure" /\ res'.op = "apply_block" /\ nops' = nops + 1) =>
         IsPrefix(backend[m].data, backend'[m].data) /\ ext'.pos[m] >= ext.pos[m]
    /\ (pc = "closure" /\ res'.op = "rewind" /\ nops' = nops + 1) =>
         IsPrefix(backend'[m].data, backend[m].data) /\ ext'.pos[m] <= ext.pos[m]
    /\ (pc = "idle" /\ pc' = "idle" /\ driver' = "compact") =>
         backend'[m] = backend[m] /\ disk'[m] = disk[m]

\* every kernel leaf at or below the size is readable, in an extension after each
\* successful operation and in the TxHashSet between the drivers
KernelsReadable ==
  /\ (InExtension /\ res.ok) => Readable(backend, ext.pos)
  /\ pc = "idle" => Readable(backend, last_pos)

\* C14: the kernel and token-kernel MMRs are append-only: apply_block, rewind and
\* compact never prune or compact one of their leaves, apply_block only appends to
\* them, rewind only truncates them, and every kernel leaf at a position at or
\* below the MMR size is readable
C14_KernelsAppendOnly ==
  /\ [](NeverPruned(backend) /\ NeverPruned(disk) /\ KernelsReadable)
  /\ [][AppendOrTruncate]_vars

\* the kernel MMRs in the extendings that no failed commit or sync preceded
KernelsWithoutIoFailure ==
  /\ [](NeverPruned(backend) /\ NeverPruned(disk) /\ (fails = 0 => KernelsReadable))
  /\ [][fails' = 0 => AppendOrTruncate]_vars

(***************************************************************************)
(* Properties of the index rebuild.                                        *)
(***************************************************************************)
\* the positions at or below last_pos of the unpruned output leaves that carry c
UnspentAt(c) ==
  {p \in backend["output"].leaf_set :
     LET Carries(out) == out.some /\ out.v = c
     IN Carries(get_data("output", backend["output"], last_pos["output"], p))}

\* the outputs of the blocks of the chain below block x, x included
OutputsUpTo(x) ==
  {<<y, i>> \in Ancestors(batch.blocks, x) \X (1..2) : i <= Len(batch.blocks[y].outputs)}

\* the height of the block of the chain that created the output leaf at position p
CreatedAt(p) ==
  LET x == CHOOSE y \in Ancestors(batch.blocks, batch.head) :
             /\ Cardinality(OutputsUpTo(y)) >= n_leaves(p)
             /\ Cardinality(OutputsUpTo(batch.blocks[y].prev)) < n_leaves(p)
  IN batch.blocks[x].height

\* the index has an entry for c iff c is the commitment of an unpruned output
\* leaf, and the entry has the position of the leaf
ExactlyUnspent ==
  \A c \in Commits :
    /\ c \in DOMAIN batch.output_pos <=> UnspentAt(c) # {}
    /\ c \in DOMAIN batch.output_pos => batch.output_pos[c].pos \in UnspentAt(c)

\* every entry has the height of the block that created its output
TrueHeights ==
  \A c \in DOMAIN batch.output_pos :
    batch.output_pos[c].height = CreatedAt(batch.output_pos[c].pos)

Rebuilt == driver = "init_output_pos_index" /\ ret.ok

\* C15 as claimed: after init_output_pos_index completes successfully from any
\* starting index contents, the index has an entry for C iff C is the commitment
\* of an unpruned output leaf at or below last_pos, with the position of the leaf
\* and the height of the block that created the output
C15_IndexRebuiltAsClaimed == Rebuilt => (ExactlyUnspent /\ TrueHeights)

\* the entries of the index the call started from that have the position of an
\* unpruned leaf with their commitment have the height of its block
StartedWithTrueHeights ==
  \A c \in DOMAIN pre.batch.output_pos :
    pre.batch.output_pos[c].pos \in UnspentAt(c) =>
      pre.batch.output_pos[c].height = CreatedAt(pre.batch.output_pos[c].pos)

\* the header MMR holds the headers of the chain of the body head, by height
HeadersOfChain ==
  /\ n_leaves(last_pos["header"]) = batch.blocks[batch.head].height + 1
  /\ \A x \in Ancestors(batch.blocks, batch.head) :
       get_header_hash_by_height(backend, last_pos, batch.blocks[x].height) = Some(x)

\* the rebuild on a TxHashSet whose header MMR holds the headers of the chain,
\* from an index whose entries at the position of their own leaf have its height
RebuiltFromTrueHeights ==
  (Rebuilt /\ StartedWithTrueHeights /\ HeadersOfChain) => (ExactlyUnspent /\ TrueHeights)

\* such a rebuild has removed a ghost entry and restored the entry of an unspent
\* output of the second block
GhostRemovedAndEntryRestored ==
  /\ Rebuilt
  /\ StartedWithTrueHeights
  /\ HeadersOfChain
  /\ \E c \in DOMAIN pre.batch.output_pos : UnspentAt(c) = {}
  /\ \E c \in Commits : UnspentAt(c) # {} /\ c \notin DOMAIN pre.batch.output_pos
  /\ batch.blocks[batch.head].height = 2

\* C16: init_output_pos_index run twice in succession: the second run deletes no
\* entry and adds no entry, and leaves the index as the first run left it
C16_RebuildIdempotent ==
  (Rebuilt /\ done.before = [name |-> "init_output_pos_index", ok |-> TRUE]) =>
    /\ done.removed = 0
    /\ done.added = 0
    /\ batch = pre.batch

\* a second run in succession, on an index that has the entries of two unspent
\* outputs
C16_Witness ==
  /\ Rebuilt
  /\ done.before = [name |-> "init_output_pos_index", ok |-> TRUE]
  /\ calls = 2
  /\ Cardinality(DOMAIN batch.output_pos) = 2

(***************************************************************************)
(* Properties of the unspent check.                                        *)
(***************************************************************************)
\* the index maps the commitment of id to an entry, and the output MMR viewed at
\* last_pos holds at its position an unpruned leaf whose identifier is id
IndexedAndUnspent(id) ==
  /\ id.commit \in DOMAIN batch.output_pos
  /\ LET pos == batch.output_pos[id.commit].pos
     IN /\ pos <= last_pos["output"]
        /\ is_leaf(pos)
        /\ pos \in backend["output"].leaf_set
        /\ pos \notin backend["output"].pruned
        /\ n_leaves(pos) <= Len(backend["output"].data)
        /\ OutputIdentifier(backend["output"].data[n_leaves(pos)]) = id

\* C17: get_unspent(id) returns Some(CommitPos{pos, height}) exactly when the index
\* maps the commitment of id to (pos, height) and the output MMR viewed at
\* last_pos holds an unpruned leaf at pos whose identifier is id, None when there
\* is no entry or the entry is stale, StoreErr only when the store fails, and it
\* changes no state
C17_GetUnspent ==
  driver = "get_unspent" =>
    /\ ret.ok <=> ~done.arg.store_err
    /\ ~ret.ok => ret.err.kind = "StoreErr" /\ ~ret.val.some
    /\ ret.ok => (ret.val.some <=> IndexedAndUnspent(done.arg.output_id))
    /\ ret.val.some => ret.val.v = batch.output_pos[done.arg.output_id.commit]
    /\ Snapshot = pre

\* get_unspent has answered None for an output that is indexed and spent, and for
\* none of the reasons but the pruned leaf
C17_Witness ==
  /\ driver = "get_unspent"
  /\ ret.ok
  /\ ~ret.val.some
  /\ done.arg.output_id.commit \in DOMAIN batch.output_pos
  /\ LET pos == batch.output_pos[done.arg.output_id.commit].pos
     IN /\ pos <= last_pos["output"]
        /\ is_leaf(pos)
        /\ pos \notin backend["output"].leaf_set
        /\ OutputIdentifier(backend["output"].data[n_leaves(pos)]) = done.arg.output_id

(***************************************************************************)
(* Properties of Extension::rewind.                                        *)
(***************************************************************************)
RECURSIVE BlocksDown(_, _, _)
\* the blocks from h down to the one just above the block named target
BlocksDown(blocks, h, target) ==
  IF blocks[h].height <= blocks[target].height THEN <<>>
  ELSE <<h>> \o BlocksDown(blocks, blocks[h].prev, target)

RECURSIVE AffectedPos(_, _, _)
\* the positions the blocks of hs[i..] spent, each block's followed by the size
\* of the output MMR below the block
AffectedPos(bt, hs, i) ==
  IF i > Len(hs) THEN <<>>
  ELSE PosOf(bt.spent_index[hs[i]]) \o <<bt.blocks[bt.blocks[hs[i]].prev].output_mmr_size>>
       \o AffectedPos(bt, hs, i + 1)

\* the sizes a header records, MMR by MMR
RecordedSizes(header) ==
  [m \in DataSet |->
     CASE m \in {"output", "rproof"} -> header.output_mmr_size
       [] m = "kernel" -> header.kernel_mmr_size
       [] m \in {"token_output", "token_rproof"} -> header.token_output_mmr_size
       [] m = "token_issue_proof" -> header.token_issue_proof_mmr_size
       [] OTHER -> header.token_kernel_mmr_size]

\* this step is a call of Extension::rewind from a head above its target
RewoundBelowHead ==
  /\ nops' = nops + 1
  /\ res'.op = "rewind"
  /\ child_batch.blocks[ext.head].height > child_batch.blocks[res'.log[1].header].height

\* what such a call does
RewoundAsClaimed ==
  LET target == res'.log[1].header
      hs == BlocksDown(child_batch.blocks, ext.head, target)
      n == Len(hs)
  IN /\ res'.ok
     /\ n = child_batch.blocks[ext.head].height - child_batch.blocks[target].height
     /\ Len(res'.log) = n + 2
     /\ \A k \in 1..n : res'.log[k + 1] = [op |-> "rewind_single_block", header |-> hs[k]]
     /\ \A k \in 1..n : child_batch.blocks[hs[k]].height
                           = child_batch.blocks[ext.head].height - (k - 1)
     /\ res'.log[n + 2] = [op |-> "apply_to_bitmap_accumulator",
                           output_pos |-> AffectedPos(child_batch, hs, 1)]
     /\ ext'.pos = RecordedSizes(child_batch.blocks[target])
     /\ ext'.head = target

\* C18: Extension::rewind(target) from a head above target calls
\* rewind_single_block once for each block from the head down to height
\* target.height + 1 in descending order, then applies the bitmap accumulator once
\* over the aggregated affected positions, leaves the seven MMRs at the sizes the
\* target records, and sets the head to the target
C18_RewindBlockByBlock == [][RewoundBelowHead => RewoundAsClaimed]_vars

\* a rewind over two blocks that spent outputs has returned Ok
C18_Witness ==
  /\ res.op = "rewind"
  /\ res.ok
  /\ Len(res.log) = 4
  /\ Len(res.log[4].output_pos) > 2

(***************************************************************************)
(* Properties of the validation.                                           *)
(***************************************************************************)
\* the header the last call was given
GivenHeader == child_batch.blocks[res.log[1].header]

\* validate_roots, validate_sizes or validate_root was called for a header of
\* height 0
ComparedAtGenesis ==
  /\ res.op \in {"validate_roots", "validate_sizes", "validate_root"}
  /\ GivenHeader.height = 0

\* validate was called by an extension whose head is at height 0
ValidatedAtGenesis ==
  /\ res.op = "validate"
  /\ child_batch.blocks[ext.head].height = 0

\* the zero-commitment pair with empty token sums, and no check made for it
ZeroSums ==
  /\ res.ok
  /\ res.val = [output_sum |-> ZeroCommit, kernel_sum |-> ZeroCommit, token_sums |-> <<>>,
                checks |-> {}]

\* the MMRs are valid and the header given passes validate_roots and validate_sizes
PassedTheChecks ==
  /\ res.log[1].mmrs_valid
  /\ \/ GivenHeader.height = 0
     \/ /\ \A m \in DataSet :
             root(backend[m], ext.pos[m]) = child_batch.snap[res.log[1].header].roots[m]
        /\ ext.acc = child_batch.snap[res.log[1].header].acc
        /\ ext.pos = RecordedSizes(GivenHeader)

\* C19 as claimed: for a header of height 0 and any MMR state, validate_roots,
\* validate_sizes and validate_root return Ok, and validate returns the
\* zero-commitment pair with empty token sums whenever the head of the extension
\* is at height 0
C19_GenesisBoundaryAsClaimed ==
  /\ ComparedAtGenesis => res.ok
  /\ ValidatedAtGenesis => ZeroSums

\* C19: for a header of height 0 and any MMR state, validate_roots, validate_sizes
\* and validate_root return Ok, and validate returns the zero-commitment pair
\* with empty token sums, no sum, rangeproof or signature checked, when the head
\* of the extension is at height 0 and validate_mmrs, validate_roots and
\* validate_sizes have returned Ok for the header it was given
C19_GenesisBoundary ==
  /\ ComparedAtGenesis => res.ok
  /\ (ValidatedAtGenesis /\ PassedTheChecks) => ZeroSums

\* validate has returned the zero sums at genesis, over MMRs that are not empty and
\* whose output root differs from the genesis header's
C19_Witness ==
  /\ ValidatedAtGenesis
  /\ GivenHeader.height = 0
  /\ ext.pos["output"] > 0
  /\ ext.pos["token_kernel"] > 0
  /\ res.log[1].failing = "validate_kernel_sums"
  /\ ZeroSums

\* validate_sizes has returned Ok for the genesis header over sizes that are not
\* the genesis header's
SizesSkippedAtGenesis ==
  /\ res.op = "validate_sizes"
  /\ GivenHeader.height = 0
  /\ ext.pos # RecordedSizes(GivenHeader)
  /\ res.ok

\* validate_roots has returned Ok for the genesis header over other roots
RootsSkippedAtGenesis ==
  /\ res.op = "validate_roots"
  /\ GivenHeader.height = 0
  /\ root(backend["output"], ext.pos["output"]) # child_batch.snap[1].roots["output"]
  /\ res.ok

\* validate_root has returned Ok for the genesis header over a header MMR that
\* holds headers
RootSkippedAtGenesis ==
  /\ res.op = "validate_root"
  /\ GivenHeader.height = 0
  /\ ext.hpos > 1
  /\ res.ok

\* validate_sizes was called for a header above genesis
SizesCompared == res.op = "validate_sizes" /\ GivenHeader.height > 0

\* the MMRs whose size is not the one the header given records
Mismatched == {m \in DataSet : ext.pos[m] # RecordedSizes(GivenHeader)[m]}

\* this step is a call of validate_sizes
SizesStep == nops' = nops + 1 /\ res'.op = "validate_sizes"

\* C20: for a header of height > 0, validate_sizes returns Ok iff each of the seven
\* sizes equals the size the header records for it (the output size for the
\* output and rangeproof MMRs, the token output size for the token output and
\* token rangeproof MMRs), and InvalidMMRSize otherwise, a mismatch in a single
\* MMR included; the call changes no state
C20_ValidateSizes ==
  /\ [](SizesCompared => /\ res.ok <=> Mismatched = {}
                         /\ ~res.ok => res.err.kind = "InvalidMMRSize")
  /\ [][SizesStep => UNCHANGED <<backend, disk, last_pos, bitmap_accumulator, batch,
                                 child_batch, ext>>]_vars

\* validate_sizes has returned InvalidMMRSize where only the rangeproof MMR differs
C20_Witness ==
  /\ SizesCompared
  /\ Mismatched = {"rproof"}
  /\ ~res.ok
  /\ res.err.kind = "InvalidMMRSize"

(***************************************************************************)
(* Properties of header_extending.                                         *)
(***************************************************************************)
AfterHeaderExtending == pc = "idle" /\ driver = "header_extending"

\* header_extending has touched no data MMR and not the bitmap accumulator
DataUntouched ==
  /\ \A m \in DataSet :
       /\ backend[m] = pre.backend[m]
       /\ disk[m] = pre.disk[m]
       /\ last_pos[m] = pre.last_pos[m]
  /\ bitmap_accumulator = pre.bitmap_accumulator

\* the header backend is discarded, the child batch not committed and the header
\* last_pos as before the call
HeaderRolledBack ==
  /\ backend["header"] = disk["header"]
  /\ disk["header"] = pre.disk["header"]
  /\ ~committed
  /\ batch = pre.batch
  /\ last_pos["header"] = pre.last_pos["header"]

\* the child batch is committed, the header backend synced and the header last_pos
\* the size of the extension
HeaderCommitted ==
  /\ committed
  /\ "header" \in synced
  /\ disk["header"] = backend["header"]
  /\ last_pos["header"] = done.hsize

\* C21: header_extending discards the header backend, commits nothing and leaves the
\* header last_pos when the closure returned Err or returned Ok after
\* force_rollback; when the closure returned Ok without rollback the child batch
\* is committed, the backend synced and last_pos is the extension's size; no data
\* MMR and not the bitmap accumulator is touched in any case
C21_HeaderExtendingDiscipline ==
  AfterHeaderExtending =>
    /\ (~done.closure_ok \/ done.rollback) => HeaderRolledBack
    /\ (done.closure_ok /\ ~done.rollback) => HeaderCommitted
    /\ DataUntouched

\* the same where child_batch.commit() and handle.backend.sync() have returned Ok
\* in this call of header_extending
HeaderDisciplineWithoutIoFailure ==
  (AfterHeaderExtending /\ ret # IoErr) =>
    /\ (~done.closure_ok \/ done.rollback) => HeaderRolledBack
    /\ (done.closure_ok /\ ~done.rollback) => HeaderCommitted
    /\ DataUntouched

\* a header_extending whose closure applied a header has committed
HeaderCommitReached ==
  /\ AfterHeaderExtending
  /\ done.closure_ok
  /\ ~done.rollback
  /\ HeaderCommitted
  /\ last_pos["header"] > pre.last_pos["header"]

\* a header_extending whose closure applied a header and called force_rollback has
\* returned Ok
HeaderRollbackReached ==
  /\ AfterHeaderExtending
  /\ done.closure_ok
  /\ done.rollback
  /\ ret = NoRet
  /\ backend["header"] # EmptyBackend

(***************************************************************************)
(* Properties of TxHashSet::open.                                          *)
(***************************************************************************)
\* the kernel MMR of the files is accepted under this version
Qualifies(version) ==
  \/ disk["kernel"].data = <<>>
  \/ disk["kernel"].decodes[version] = "good"

\* C22: open tries version 2 and then version 1 for the kernel MMR: an empty kernel
\* MMR is accepted under version 2, the first tried; otherwise the first version
\* under which leaf 1 is read and verifies is chosen; when neither qualifies open
\* fails with TxHashSetErr("failed to open kernel PMMR") and returns no TxHashSet
C22_KernelVersionProbe ==
  driver = "open" =>
    /\ ret.ok <=> (Qualifies(2) \/ Qualifies(1))
    /\ ret.ok => /\ pc = "idle"
                 /\ Qualifies(ret.val)
                 /\ ret.val = 1 => ~Qualifies(2)
    /\ ~ret.ok => /\ ret.err = [kind |-> "TxHashSetErr", c |-> "failed to open kernel PMMR"]
                  /\ pc = "closed"
                  /\ backend = pre.backend

\* files whose first kernel verifies under version 1 only were opened under
\* version 1
C22_Witness ==
  /\ driver = "open"
  /\ disk["kernel"].data # <<>>
  /\ disk["kernel"].decodes[2] = "bad"
  /\ ret.ok
  /\ ret.val = 1

\* files whose first kernel verifies under both versions were opened under
\* version 2
OpenedUnderNewest ==
  /\ driver = "open"
  /\ disk["kernel"].data # <<>>
  /\ disk["kernel"].decodes = [v \in {1, 2} |-> "good"]
  /\ ret.ok
  /\ ret.val = 2

\* open has failed on files whose first kernel verifies under no version
OpenFailed == driver = "open" /\ ~ret.ok /\ disk["kernel"].decodes[1] = "none"

(***************************************************************************)
(* Properties of find_kernel and find_token_kernel.                        *)
(***************************************************************************)
Found == driver \in {"find_kernel", "find_token_kernel"}

\* the positions of the range asked for that hold a kernel with the excess
Hits ==
  LET m == done.arg.m
      lo == IF done.arg.min_index.some THEN done.arg.min_index.v ELSE 1
      hi == IF done.arg.max_index.some THEN done.arg.max_index.v ELSE last_pos[m]
  IN {p \in lo..hi :
        /\ p <= last_pos[m]
        /\ is_leaf(p)
        /\ n_leaves(p) <= Len(backend[m].data)
        /\ backend[m].data[n_leaves(p)] = done.arg.excess}

\* the call returned, with the kernel at the greatest such position, None when
\* there is none, and changed no state
FoundGreatest ==
  /\ ~ret.panic
  /\ Hits = {} => ret.val = NoData
  /\ Hits # {} => ret.val = Some([kernel |-> done.arg.excess, pos |-> SetMax(Hits)])
  /\ Snapshot = pre

\* C23: find_kernel(excess, min, max), min 1 and max the kernel last_pos by
\* default, returns the kernel with that excess at the greatest position of
\* min..max, None when the range holds none (always on an empty MMR), terminates
\* for every min and max and changes no state; find_token_kernel likewise
C23_FindKernel == Found => FoundGreatest

\* the same for every max_index below u64::MAX
FindBelowMaxU64 ==
  (Found /\ done.arg.max_index # Some(MaxU64)) => FoundGreatest

\* the later of two kernels with the excess was found, below a kernel with another
LaterKernelFound ==
  /\ driver = "find_token_kernel"
  /\ backend["token_kernel"].data = <<1, 1, 2>>
  /\ done.arg.excess = 1
  /\ done.arg.min_index = Some(0)
  /\ done.arg.max_index = None
  /\ ret.val = Some([kernel |-> 1, pos |-> 2])

(***************************************************************************)
(* Properties of compact.                                                  *)
(***************************************************************************)
\* the positions the blocks above the horizon up to the head have spent, by the
\* cached bitmaps of a spent index
SpentAboveHorizon(index) ==
  UNION {IF done.arg.cached /\ x \in DOMAIN index
         THEN {index[x][i].pos : i \in 1..Len(index[x])}
         ELSE {} :
           x \in {y \in Ancestors(batch.blocks, batch.head) :
                    batch.blocks[y].height > batch.blocks[done.arg.horizon_header].height}}

\* the backend b as check_compact leaves it for this horizon size and bitmap
CompactedAt(b, size, bitmap) ==
  [b EXCEPT !.pruned = @ \cup {p \in 1..Min(size, SizeOf(Len(b.data))) :
                                 is_leaf(p) /\ p \notin b.leaf_set /\ p \notin bitmap}]

\* output and rangeproof are compacted at the output size of the horizon with the
\* regular rewind bitmap
OutputPairCompacted(be, was) ==
  \A m \in {"output", "rproof"} :
    be[m] = CompactedAt(was[m], batch.blocks[done.arg.horizon_header].output_mmr_size,
                        SpentAboveHorizon(batch.spent_index))

\* token output and token rangeproof are compacted at the token output size of the
\* horizon with the token rewind bitmap
TokenPairCompacted(be, was) ==
  \A m \in {"token_output", "token_rproof"} :
    be[m] = CompactedAt(was[m], batch.blocks[done.arg.horizon_header].token_output_mmr_size,
                        SpentAboveHorizon(batch.token_spent_index))

\* the other backends are as they were
OthersNotCompacted(be, was) ==
  \A m \in AllMMRs \ {"output", "rproof", "token_output", "token_rproof"} : be[m] = was[m]

\* C24: compact(horizon_header) calls check_compact on the output and rangeproof
\* backends with horizon_header.output_mmr_size and the regular rewind bitmap, on
\* the token output and token rangeproof backends with the token output size of
\* the horizon and the token rewind bitmap, each bitmap the union of the cached
\* input bitmaps of the blocks above the horizon up to the head, and on no other
\* backend, so that each pair is compacted identically
C24_CompactFourBackends ==
  driver = "compact" =>
    /\ OutputPairCompacted(backend, pre.backend)
    /\ TokenPairCompacted(backend, pre.backend)
    /\ OthersNotCompacted(backend, pre.backend)
    /\ backend["output"].pruned = backend["rproof"].pruned
    /\ backend["token_output"].pruned = backend["token_rproof"].pruned

\* the same without the token rangeproof backend
CompactOtherThanTokenRproof ==
  driver = "compact" =>
    /\ OutputPairCompacted(backend, pre.backend)
    /\ backend["token_output"]
         = CompactedAt(pre.backend["token_output"],
                       batch.blocks[done.arg.horizon_header].token_output_mmr_size,
                       SpentAboveHorizon(batch.token_spent_index))
    /\ OthersNotCompacted(backend, pre.backend)
    /\ fails = 0 => backend["output"].pruned = backend["rproof"].pruned

\* a compaction with no failed commit or sync before it has left a token output
\* leaf compacted whose token rangeproof leaf is not
TokenPairSplit ==
  /\ driver = "compact"
  /\ fails = 0
  /\ pre.backend["token_output"].leaf_set = pre.backend["token_rproof"].leaf_set
  /\ pre.backend["token_output"].pruned = pre.backend["token_rproof"].pruned
  /\ backend["token_output"].pruned # backend["token_rproof"].pruned

\* the steps validate has called, in the order of the calls
StepsRun == [k \in 1..(Len(res.log) - 1) |-> res.log[k + 1].op]

\* the steps of a validate in which none fails
StepsInOrder ==
  <<"validate_mmrs", "validate_roots", "validate_sizes">>
  \o (IF child_batch.blocks[ext.head].height = 0 THEN <<>>
      ELSE IF res.log[1].fast_validation THEN SumSteps
      ELSE SumSteps \o FullSteps)

\* this step returns Err when validate calls it
StepFails(name) ==
  CASE name = "validate_mmrs" -> ~res.log[1].mmrs_valid
    [] name = "validate_roots" ->
         /\ GivenHeader.height > 0
         /\ \/ \E m \in DataSet : root(backend[m], ext.pos[m])
                                      # child_batch.snap[res.log[1].header].roots[m]
            \/ ext.acc # child_batch.snap[res.log[1].header].acc
    [] name = "validate_sizes" ->
         GivenHeader.height > 0 /\ ext.pos # RecordedSizes(GivenHeader)
    [] OTHER -> name = res.log[1].failing

\* the error of this step of validate
ErrOf(name) ==
  CASE name = "validate_mmrs" -> "InvalidTxHashSet"
    [] name = "validate_roots" -> "InvalidRoot"
    [] name = "validate_sizes" -> "InvalidMMRSize"
    [] OTHER -> "Other"

\* C25: validate calls validate_mmrs, validate_roots, validate_sizes, then (unless
\* the head is at genesis) validate_kernel_sums and validate_token_kernel_sums, and
\* then, only when fast_validation is false, verify_rangeproofs,
\* verify_token_rangeproofs, verify_kernel_signatures and
\* verify_token_kernel_signatures, in this order; it returns the Err of the first
\* step that fails and calls no step after it; with fast_validation no rangeproof
\* or signature is verified
C25_ValidateOrder ==
  res.op = "validate" =>
    /\ IsPrefix(StepsRun, StepsInOrder)
    /\ \A k \in 1..(Len(StepsRun) - 1) : ~StepFails(StepsRun[k])
    /\ res.ok <=> (StepsRun = StepsInOrder /\ ~StepFails(StepsRun[Len(StepsRun)]))
    /\ ~res.ok => /\ StepFails(StepsRun[Len(StepsRun)])
                  /\ res.err.kind = ErrOf(StepsRun[Len(StepsRun)])
    /\ res.log[1].fast_validation => SeqRange(StepsRun) \cap FullChecks = {}

\* a full validation has stopped at the kernel signatures, after the rangeproofs
C25_Witness ==
  /\ res.op = "validate"
  /\ ~res.log[1].fast_validation
  /\ ~res.ok
  /\ Len(StepsRun) = 8
  /\ StepsRun[8] = "verify_kernel_signatures"

\* a fast validation has returned the sums
FastValidated ==
  /\ res.op = "validate"
  /\ res.log[1].fast_validation
  /\ res.ok
  /\ StepsRun = <<"validate_mmrs", "validate_roots", "validate_sizes">> \o SumSteps

(***************************************************************************)
(* Properties of a rewind that undoes no block.                            *)
(***************************************************************************)
\* this step is a call of Extension::rewind from a head at or below its target
RewoundNotBelowHead ==
  /\ nops' = nops + 1
  /\ res'.op = "rewind"
  /\ driver \in {"extending", "extending_readonly"}
  /\ ext'.rollback = ext.rollback
  /\ child_batch.blocks[ext.head].height <= child_batch.blocks[res'.log[1].header].height

\* such a call calls no rewind_single_block, leaves the indexes alone, rewinds each
\* MMR to the size the target records without restoring a leaf, applies the
\* accumulator over the output size of the target alone and moves the head
TruncatedToTarget ==
  LET target == res'.log[1].header
      header == child_batch.blocks[target]
  IN /\ res'.ok
     /\ res'.log = <<[op |-> "rewind", header |-> target],
                     [op |-> "apply_to_bitmap_accumulator",
                      output_pos |-> <<header.output_mmr_size>>]>>
     /\ child_batch'.output_pos = child_batch.output_pos
     /\ child_batch'.token_output_pos = child_batch.token_output_pos
     /\ child_batch'.spent_index = child_batch.spent_index
     /\ child_batch'.token_spent_index = child_batch.token_spent_index
     /\ ext'.pos = RecordedSizes(header)
     /\ \A m \in DataSet : backend'[m].leaf_set \subseteq backend[m].leaf_set
     /\ ext'.head = target

\* no MMR is larger after the step than before it
NoMMRGrows == \A m \in DataSet : ext'.pos[m] <= ext.pos[m]

\* C26: Extension::rewind(target) from a head at or below the height of target
\* calls no rewind_single_block and touches no index entry, rewinds each MMR to the
\* size target records with an empty unprune bitmap, so that no pruned leaf comes
\* back, applies the bitmap accumulator with target.output_mmr_size as the only
\* affected position, sets the head to target, and leaves no MMR larger than it was
C26_RewindWithoutBlocks ==
  [][RewoundNotBelowHead => (TruncatedToTarget /\ NoMMRGrows)]_vars

\* the same without the bound on the sizes
RewindWithoutBlocksSetsSizes == [][RewoundNotBelowHead => TruncatedToTarget]_vars

\* the bound on the sizes in the extendings that no failed commit or sync preceded
NoGrowthWithoutIoFailure ==
  [][(fails = 0 /\ RewoundNotBelowHead) => NoMMRGrows]_vars

\* a rewind to the head itself, with outputs in the MMR
RewoundToHead ==
  /\ res.op = "rewind"
  /\ res.ok
  /\ Len(res.log) = 2
  /\ res.log[1].header = ext.head
  /\ ext.pos["output"] > 0

(***************************************************************************)
(* Properties of apply_block.                                              *)
(***************************************************************************)
\* the block the last apply_block was given
GivenBlock == res.log[1].b

\* whether a log entry is a call, and not a push made within a call
IsCall(entry) == entry.op # "push"

\* the calls apply_block has made, in the order of the calls
CallsMade ==
  LET made == SelectSeq(Tail(res.log), IsCall)
  IN [k \in 1..Len(made) |-> made[k].op]

\* n times the calls a and b, one after the other
Pairs(a, b, n) == [k \in 1..(2 * n) |-> IF k % 2 = 1 THEN a ELSE b]

RECURSIVE TokenOutputCalls(_, _)
\* the calls for the token outputs outs[i..]: each pushed and indexed, and an issue
\* followed by its issue proof
TokenOutputCalls(outs, i) ==
  IF i > Len(outs) THEN <<>>
  ELSE <<"apply_token_output", "save_token_output_pos_height">>
       \o (IF outs[i].issue
           THEN <<"apply_token_issue_output", "save_token_issue_proof_pos">>
           ELSE <<>>)
       \o TokenOutputCalls(outs, i + 1)

\* the calls of an apply_block of b in which none fails
CallsInOrder(b) ==
  Pairs("apply_output", "save_output_pos_height", Len(b.outputs))
  \o Pairs("apply_input", "delete_output_pos_height", Len(b.inputs))
  \o <<"save_spent_index">>
  \o TokenOutputCalls(b.token_outputs, 1)
  \o Pairs("apply_token_input", "delete_token_output_pos_height", Len(b.token_inputs))
  \o <<"save_spent_token_index">>
  \o [k \in 1..Len(b.kernels) |-> "apply_kernel"]
  \o [k \in 1..Len(b.token_kernels) |-> "apply_token_kernel"]
  \o <<"apply_to_bitmap_accumulator", "head">>

\* the number of calls of this name made
Made(name) == Cardinality({k \in 1..Len(CallsMade) : CallsMade[k] = name})

\* apply_block has failed in apply_input for an input that spends an output of the
\* block itself and that no earlier input of the block has spent
OwnOutputNotSpent ==
  /\ ~res.ok
  /\ CallsMade[Len(CallsMade)] = "apply_input"
  /\ GivenBlock.inputs[Made("apply_input")] \in SeqRange(GivenBlock.outputs)
  /\ \A j \in 1..(Made("apply_input") - 1) :
        GivenBlock.inputs[j] # GivenBlock.inputs[Made("apply_input")]

\* C27: apply_block applies all outputs (each pushed, then indexed), then all
\* inputs (each pruned, then un-indexed), then all token outputs with their issue
\* proofs, then all token inputs, then all kernels, then all token kernels, then
\* updates the bitmap accumulator, then the head; it returns Ok exactly when it has
\* made all these calls; an input that spends an output of the same block finds
\* the output pushed and indexed and succeeds
C27_ApplyBlockOrder ==
  res.op = "apply_block" =>
    /\ IsPrefix(CallsMade, CallsInOrder(GivenBlock))
    /\ res.ok <=> CallsMade = CallsInOrder(GivenBlock)
    /\ ~OwnOutputNotSpent

\* the same in the extendings that no failed commit or sync preceded
ApplyBlockOrderWithoutIoFailure == fails = 0 => C27_ApplyBlockOrder

\* the order of the calls alone
ApplyBlockCallsInOrder ==
  res.op = "apply_block" =>
    /\ IsPrefix(CallsMade, CallsInOrder(GivenBlock))
    /\ res.ok <=> CallsMade = CallsInOrder(GivenBlock)

\* a block that spends the output it creates has been applied
C27_Witness ==
  /\ res.op = "apply_block"
  /\ res.ok
  /\ SeqRange(GivenBlock.inputs) \cap SeqRange(GivenBlock.outputs) # {}

\* a block with entries of each kind has been applied
EachKindApplied ==
  /\ res.op = "apply_block"
  /\ res.ok
  /\ \A f \in {"outputs", "inputs", "token_outputs", "token_inputs", "kernels",
                "token_kernels"} : GivenBlock[f] # <<>>

\* an apply_block has failed at the second of its inputs
FailedAtSecondInput ==
  /\ res.op = "apply_block"
  /\ ~res.ok
  /\ Made("apply_input") = 2
  /\ CallsMade[Len(CallsMade)] = "apply_input"

(***************************************************************************)
(* Properties of the positions of the pushes.                              *)
(***************************************************************************)
\* the pushes to MMR m that this log holds, in the order they were made
PushesTo(log, m) ==
  LET IsPush(entry) == entry.op = "push" /\ entry.mmr = m
  IN SelectSeq(Tail(log), IsPush)

\* each push of ps returned a position above the size before it and above the
\* position of the push before it
Increasing(ps) ==
  /\ \A k \in 1..Len(ps) : ps[k].pos > ps[k].size
  /\ \A k \in 1..(Len(ps) - 1) : ps[k + 1].pos > ps[k].pos /\ ps[k + 1].size >= ps[k].pos

\* the pushes to a and to b of this log came in pairs that returned one position
SamePositions(log, a, b) ==
  /\ Len(PushesTo(log, a)) = Len(PushesTo(log, b))
  /\ \A k \in 1..Len(PushesTo(log, a)) : PushesTo(log, a)[k].pos = PushesTo(log, b)[k].pos

\* the pushes of one apply_block
PushedInOneBlock ==
  res.op = "apply_block" =>
    /\ \A m \in DataSet : Increasing(PushesTo(res.log, m))
    /\ SamePositions(res.log, "output", "rproof")
    /\ SamePositions(res.log, "token_output", "token_rproof")

\* this step is an apply_block of a closure whose call before it was an
\* apply_block too
AppliedAfterApplied ==
  /\ nops > 0
  /\ nops' = nops + 1
  /\ ext'.rollback = ext.rollback
  /\ res.op = "apply_block"
  /\ res'.op = "apply_block"

\* the pushes of this apply_block returned positions above the sizes the MMRs had
\* before it and above the positions the apply_block before it was returned
PushedAboveEarlier ==
  \A m \in DataSet :
    \A k \in 1..Len(PushesTo(res'.log, m)) :
      /\ PushesTo(res'.log, m)[k].pos > ext.pos[m]
      /\ \A j \in 1..Len(PushesTo(res.log, m)) :
            PushesTo(res'.log, m)[k].pos > PushesTo(res.log, m)[j].pos

\* C28: in an extension without a rewind the pushes to the output MMR return
\* strictly increasing positions, within one apply_block and from one apply_block
\* to the next, each above the size of the MMR before the push, and the push of an
\* output and the push of its rangeproof return the same position; the same for
\* the token outputs and their rangeproofs, the issue proofs and the kernels
C28_PushPositions ==
  /\ []PushedInOneBlock
  /\ [][AppliedAfterApplied => PushedAboveEarlier]_vars

\* the second apply_block of a closure has pushed an output above the two outputs
\* of the first, a token output, and two kernels
C28_Witness ==
  /\ res.op = "apply_block"
  /\ res.ok
  /\ nops = 2
  /\ ext.applied = 2
  /\ Len(PushesTo(res.log, "output")) = 1
  /\ PushesTo(res.log, "output")[1].size = 3
  /\ PushesTo(res.log, "rproof")[1].pos = 4
  /\ Len(PushesTo(res.log, "token_output")) = 1
  /\ Len(PushesTo(res.log, "kernel")) = 2

(***************************************************************************)
(* Properties of the indexes over apply_block and rewind_single_block.     *)
(***************************************************************************)
\* this step is a rewind that has undone the head block, and no other
RewoundOneBlock ==
  /\ nops' = nops + 1
  /\ ext'.rollback = ext.rollback
  /\ res'.op = "rewind"
  /\ res'.ok
  /\ Len(res'.log) = 3
  /\ res'.log[2] = [op |-> "rewind_single_block", header |-> ext.head]

\* the block that the step has undone spent an output that it had created
UndoneSpentItsOwn ==
  \/ SeqRange(child_batch.blocks[ext.head].inputs)
        \cap SeqRange(child_batch.blocks[ext.head].outputs) # {}
  \/ \E i \in 1..Len(child_batch.blocks[ext.head].token_inputs) :
       \E o \in 1..Len(child_batch.blocks[ext.head].token_outputs) :
         child_batch.blocks[ext.head].token_inputs[i].commit
           = child_batch.blocks[ext.head].token_outputs[o].commit

\* C29: after apply_block(h) and rewind_single_block(h) the output position index
\* and the token output position index are what they were before h was applied:
\* no output that h created has an entry, and every output that h spent has the
\* entry it had before, also when h spent an output that it created itself
C29_IndexRoundTrip ==
  [][RewoundOneBlock => Indexes(child_batch') = child_batch.index_was[ext.head]]_vars

\* the same for the blocks that spend none of their own outputs, in the extendings
\* that no failed commit or sync preceded
RoundTripOfOtherBlocksWithoutIoFailure ==
  [][(fails = 0 /\ RewoundOneBlock /\ ~UndoneSpentItsOwn)
       => Indexes(child_batch') = child_batch.index_was[ext.head]]_vars

\* a block that spent its own output was undone with no failed commit or sync
\* before, and the output it created still has an index entry
OwnOutputStillIndexed ==
  /\ fails = 0
  /\ res.op = "rewind"
  /\ res.ok
  /\ Len(res.log) = 3
  /\ \E c \in SeqRange(child_batch.blocks[res.log[2].header].outputs) :
       /\ c \in DOMAIN child_batch.output_pos
       /\ child_batch.output_pos[c].height = child_batch.blocks[res.log[2].header].height
       /\ child_batch.output_pos[c].pos > ext.pos["output"]

(***************************************************************************)
(* Properties of the spent index.                                          *)
(***************************************************************************)
\* this step is an apply_block that has returned Ok
AppliedBlock ==
  /\ nops' = nops + 1
  /\ ext'.rollback = ext.rollback
  /\ res'.op = "apply_block"
  /\ res'.ok

\* what the index index held for commitment c when the input of c was applied:
\* the entry of before the call, or the entry of the output of c that the block had
\* pushed to MMR m at height height
HeldFor(index, c, commits, m, height) ==
  LET own == {k \in 1..Len(commits) : commits[k] = c}
  IN IF own = {} THEN index[c]
     ELSE [pos |-> PushesTo(res'.log, m)[CHOOSE k \in own : TRUE].pos, height |-> height]

\* the batch holds, under the hash of the block, one CommitPos for each input and
\* for each token input, in the order of the inputs, each the entry the index held
SpentIndexSaved ==
  LET b == res'.log[1].b
      h == ext'.head
      spent == child_batch'.spent_index[h]
      token_spent == child_batch'.token_spent_index[h]
      token_commits == [k \in 1..Len(b.token_outputs) |-> b.token_outputs[k].commit]
  IN /\ h \in DOMAIN child_batch'.spent_index
     /\ h \in DOMAIN child_batch'.token_spent_index
     /\ Len(spent) = Len(b.inputs)
     /\ \A i \in 1..Len(b.inputs) :
          spent[i] = HeldFor(child_batch.output_pos, b.inputs[i], b.outputs, "output",
                             b.height)
     /\ Len(token_spent) = Len(b.token_inputs)
     /\ \A i \in 1..Len(b.token_inputs) :
          token_spent[i] = HeldFor(child_batch.token_output_pos, b.token_inputs[i].commit,
                                   token_commits, "token_output", b.height)

\* the indexes of a batch: the positions and the spent positions
Stored(cb) ==
  [output_pos |-> cb.output_pos, token_output_pos |-> cb.token_output_pos,
   spent_index |-> cb.spent_index, token_spent_index |-> cb.token_spent_index]

\* the store takes the spent indexes and the position indexes of the child batch
\* together, or none of them
TakenTogether == Stored(batch') \in {Stored(batch), Stored(child_batch)}

\* C30: after a successful apply_block(b) the batch holds under b.hash() a spent
\* index with one CommitPos for each input of b, in the order of the inputs, each
\* the (pos, height) the index held for the commitment of the input just before
\* the entry was deleted, and an empty list for a block without inputs; the token
\* spent index likewise; the spent indexes are written to the batch of the index
\* updates and are committed or dropped with them
C30_SpentIndex ==
  /\ [][AppliedBlock => SpentIndexSaved]_vars
  /\ [][TakenTogether]_vars

\* a block with two inputs and a token input has been applied and committed: the
\* store holds its two spent positions in the order of the inputs, and the spent
\* token position
C30_Witness ==
  /\ pc = "idle"
  /\ committed
  /\ \E h \in DOMAIN batch.spent_index :
       /\ batch.blocks[h].inputs = <<1, 2>>
       /\ batch.spent_index[h] = <<[pos |-> 1, height |-> 1], [pos |-> 2, height |-> 1]>>
       /\ batch.token_spent_index[h] = <<[pos |-> 1, height |-> 1]>>
       /\ 1 \notin DOMAIN batch.output_pos

\* a block that spends the output it creates has stored the position of that output
OwnOutputInSpentIndex ==
  /\ res.op = "apply_block"
  /\ res.ok
  /\ GivenBlock.inputs = <<1>>
  /\ GivenBlock.outputs = <<1>>
  /\ child_batch.spent_index[ext.head] = <<[pos |-> ext.pos["output"], height |-> GivenBlock.height]>>

(***************************************************************************)
(* The cursors and the accumulator of the TxHashSet during an extension.   *)
(***************************************************************************)
\* the cursors and the accumulator of the TxHashSet are those of the driver's call
OwnStateHeld ==
  /\ last_pos = pre.last_pos
  /\ bitmap_accumulator = pre.bitmap_accumulator

\* this step assigns a cursor or the accumulator of the TxHashSet
OwnStateAssigned == last_pos' # last_pos \/ bitmap_accumulator' # bitmap_accumulator

\* this step is the commit branch of extending or of header_extending, past its
\* child_batch.commit(): the closure has returned Ok with the rollback flag of the
\* driver's extension unset
CommitBranch ==
  /\ pc = "closure"
  /\ pc' = "idle"
  /\ res.ok
  /\ committed'
  /\ \/ driver = "extending" /\ ~ext.rollback
     \/ driver = "header_extending" /\ ~ext.hrollback

\* C31: while the closure of extending or header_extending runs, and until the
\* commit branch of the driver executes, the bitmap_accumulator and every last_pos
\* of the TxHashSet keep the values they had when the driver was called: apply_block,
\* rewind and the other operations of the extension work on the clone and on the
\* views, and only the commit branch of a driver assigns a cursor or the accumulator
C31_OwnStateUntilCommit ==
  /\ [](pc = "closure" => OwnStateHeld)
  /\ [][OwnStateAssigned => CommitBranch]_vars

\* the closure of an extending has applied a block and rewound to it: the sizes and
\* the accumulator of the extension have moved away from those of the TxHashSet
C31_Witness ==
  /\ pc = "closure"
  /\ driver = "extending"
  /\ ext.applied = 1
  /\ res.op = "rewind"
  /\ res.ok
  /\ ext.pos["output"] > last_pos["output"]
  /\ ext.pos["kernel"] > last_pos["kernel"]
  /\ ext.acc # bitmap_accumulator
  /\ OwnStateHeld

\* the closure of a header_extending has applied a header: the size of the
\* extension is above the cursor of the header handle
HeaderCursorHeld ==
  /\ pc = "closure"
  /\ driver = "header_extending"
  /\ res.op = "apply_header"
  /\ res.ok
  /\ ext.hpos > last_pos["header"]
  /\ OwnStateHeld

(***************************************************************************)
(* Properties of the backfill pass of the index rebuild.                   *)
(***************************************************************************)
\* the output the output MMR serves at position p
OutputAt(p) == get_data("output", backend["output"], last_pos["output"], p)

\* the index as the first pass of the call left it
AfterFirstPass ==
  [key \in KeptEntries(backend, last_pos, pre.batch.output_pos) |->
     pre.batch.output_pos[key]]

\* the positions of the unpruned output leaves whose commitment the index lacks
\* when the backfill pass starts
MissingLeaves ==
  {p \in backend["output"].leaf_set :
     OutputAt(p).some /\ OutputAt(p).v \notin DOMAIN AfterFirstPass}

\* the header the loop reads for height h: the one the header MMR holds there
Walked(h) == batch.blocks[get_header_hash_by_height(backend, last_pos, h).v]

\* the heights of the walked headers that record an output MMR size of p or more
ReachedBy(p) ==
  {h \in 1..batch.blocks[batch.head].height : p <= Walked(h).output_mmr_size}

\* the saves of the call, by index
Saves == {done.saved[i] : i \in 1..Len(done.saved)}

\* the leaves are saved in increasing position order, none of them twice
SavedInOrder ==
  \A i, j \in 1..Len(done.saved) : i < j => done.saved[i].pos < done.saved[j].pos

\* the saved leaves are the missing leaves that a walked header reaches, each saved
\* with its commitment, its position and the height of the lowest walked header
\* that reaches it, and the index holds these entries
SavedUnderLowestHeader ==
  /\ {e.pos : e \in Saves} = {p \in MissingLeaves : ReachedBy(p) # {}}
  /\ done.added = Len(done.saved)
  /\ \A e \in Saves :
       /\ e.commit = OutputAt(e.pos).v
       /\ e.height = Walked(SetMin(ReachedBy(e.pos))).height
       /\ batch.output_pos[e.commit] = [pos |-> e.pos, height |-> e.height]
  /\ \A key \in DOMAIN AfterFirstPass : batch.output_pos[key] = AfterFirstPass[key]
  /\ DOMAIN batch.output_pos = DOMAIN AfterFirstPass \cup {e.commit : e \in Saves}

\* no missing leaf at or below the output MMR size of the head header is left
\* without an entry
NoneLeftBelowHead ==
  \A p \in MissingLeaves :
    p <= batch.blocks[batch.head].output_mmr_size =>
      /\ OutputAt(p).v \in DOMAIN batch.output_pos
      /\ batch.output_pos[OutputAt(p).v].pos = p

\* C32: in the backfill pass of init_output_pos_index the unpruned output leaves
\* missing from the index are consumed in increasing position order while the
\* headers are walked from height 1 up to the head height; each leaf at or below
\* the output_mmr_size of a walked header gets exactly one entry (commit, pos,
\* H.height) with H the lowest walked header that reaches it; no leaf is saved
\* twice and none at or below the output_mmr_size of the head header is left
\* without an entry
C32_Backfill == Rebuilt => (SavedInOrder /\ SavedUnderLowestHeader /\ NoneLeftBelowHead)

\* the order of the saves and the header of each save, in every successful call
BackfillUnderWalkedHeaders == Rebuilt => (SavedInOrder /\ SavedUnderLowestHeader)

\* all of it in the calls whose header MMR holds the headers of the chain of the
\* body head
BackfillOverChainHeaders == (Rebuilt /\ HeadersOfChain) => NoneLeftBelowHead

\* a call over the headers of the chain has saved the leaves of two blocks, each
\* with the height of its block
SavedOverTwoHeaders ==
  /\ Rebuilt
  /\ HeadersOfChain
  /\ Len(done.saved) = 2
  /\ done.saved[1].height = 1
  /\ done.saved[2].height = 2

\* a call over the header of a fork has left an unpruned leaf of the chain without
\* an entry
LeafLeftUnderForkHeader ==
  /\ Rebuilt
  /\ ~HeadersOfChain
  /\ ~NoneLeftBelowHead
  /\ Len(done.saved) = 1

(***************************************************************************)
(* Properties of the batch verifications.                                  *)
(***************************************************************************)
RECURSIVE Flat(_)
\* the items of a list of calls, one after the other
Flat(made) == IF made = <<>> THEN <<>> ELSE Head(made).items \o Flat(Tail(made))

\* every call but the last passes a full batch of size items, the last at most size
BatchesOf(made, size) ==
  \A i \in 1..Len(made) :
    /\ Len(made[i].items) <= size
    /\ i < Len(made) => Len(made[i].items) = size

\* the kernel leaves at positions 1..=unpruned_size, in position order
KernelLeaves ==
  [k \in 1..n_leaves(last_pos["kernel"]) |->
     get_data("kernel", backend["kernel"], last_pos["kernel"], insertion_to_pmmr_index(k))]

\* the unpruned output leaves, each with the rangeproof at its position, in
\* position order
ProofPairs ==
  LET leaves == leaf_pos_iter(backend["output"])
  IN [i \in 1..Len(leaves) |->
        [pos |-> leaves[i],
         output |-> get_data("output", backend["output"], last_pos["output"], leaves[i]),
         proof |-> get_data("rproof", backend["rproof"], last_pos["rproof"], leaves[i])]]

\* the batch primitive has returned Err at the call the input names
BatchRefused ==
  /\ ~ret.ok
  /\ ret.err.kind = "BatchVerify"
  /\ done.arg # 0
  /\ Len(res.log) = done.arg

\* verify_kernel_signatures: Ok means that every kernel leaf went to
\* batch_sig_verify once, in position order, in batches of at most
\* KERNEL_BATCH_SIZE, the last call made at the last position, and no call for an
\* empty MMR; with a leaf missing the result is TxKernelNotFound, unless
\* batch_sig_verify has returned Err before
KernelSignaturesVerified ==
  driver = "verify_kernel_signatures" =>
    LET missing == {k \in 1..Len(KernelLeaves) : ~KernelLeaves[k].some}
        upto == IF missing = {} THEN Len(KernelLeaves) ELSE SetMin(missing) - 1
        kernels == [k \in 1..upto |-> KernelLeaves[k].v]
    IN /\ BatchesOf(res.log, KERNEL_BATCH_SIZE)
       /\ \A i \in 1..Len(res.log) : res.log[i].op = "batch_sig_verify"
       /\ ret.ok => /\ missing = {}
                    /\ Flat(res.log) = kernels
                    /\ (last_pos["kernel"] = 0) = (res.log = <<>>)
                    /\ res.log # <<>> => res.log[Len(res.log)].n = last_pos["kernel"]
                    /\ done.arg = 0 \/ Len(res.log) < done.arg
       /\ ~ret.ok => /\ Flat(res.log) = SubSeq(kernels, 1, Len(Flat(res.log)))
                     /\ BatchRefused \/ (missing # {} /\ ret.err.kind = "TxKernelNotFound")
       /\ (missing # {} /\ done.arg = 0) => (~ret.ok /\ ret.err.kind = "TxKernelNotFound")

\* verify_rangeproofs: Ok means that every unpruned output leaf went to
\* batch_verify_proofs once with the rangeproof at its position, in position
\* order, in batches of at most RPROOF_BATCH_SIZE, the remainder at the end, and
\* no call when there is no leaf; with a member of a pair missing the result is
\* OutputNotFound or RangeproofNotFound, unless batch_verify_proofs has returned
\* Err before
RangeproofsVerified ==
  driver = "verify_rangeproofs" =>
    LET missing == {i \in 1..Len(ProofPairs) :
                      ~ProofPairs[i].output.some \/ ~ProofPairs[i].proof.some}
        upto == IF missing = {} THEN Len(ProofPairs) ELSE SetMin(missing) - 1
        pairs == [i \in 1..upto |->
                    [commit |-> ProofPairs[i].output.v, proof |-> ProofPairs[i].proof.v,
                     pos |-> ProofPairs[i].pos]]
        Expected == IF ~ProofPairs[SetMin(missing)].output.some THEN "OutputNotFound"
                     ELSE "RangeproofNotFound"
    IN /\ BatchesOf(res.log, RPROOF_BATCH_SIZE)
       /\ \A i \in 1..Len(res.log) :
            res.log[i].op = "batch_verify_proofs" /\ res.log[i].items # <<>>
       /\ ret.ok => /\ missing = {}
                    /\ Flat(res.log) = pairs
                    /\ (pairs = <<>>) = (res.log = <<>>)
                    /\ done.arg = 0 \/ Len(res.log) < done.arg
       /\ ~ret.ok => /\ Flat(res.log) = SubSeq(pairs, 1, Len(Flat(res.log)))
                     /\ BatchRefused \/ (missing # {} /\ ret.err.kind = Expected)
       /\ (missing # {} /\ done.arg = 0) => (~ret.ok /\ ret.err.kind = Expected)

\* C33: verify_kernel_signatures passes every kernel leaf at positions
\* 1..=unpruned_size to batch_sig_verify exactly once, in position order, in
\* batches of at most KERNEL_BATCH_SIZE, with the final partial batch flushed at
\* the last position, and fails with TxKernelNotFound when a leaf is missing;
\* verify_rangeproofs passes every unpruned output leaf with the rangeproof at the
\* same position to batch_verify_proofs exactly once, in batches of at most
\* RPROOF_BATCH_SIZE, the remainder at the end, and fails with OutputNotFound or
\* RangeproofNotFound when a member of a pair is missing; both return, and make no
\* call on an empty MMR
C33_BatchVerification == KernelSignaturesVerified /\ RangeproofsVerified

\* five kernels have been verified in two full batches and a last batch of one,
\* flushed at the last position
C33_Witness ==
  /\ driver = "verify_kernel_signatures"
  /\ ret.ok
  /\ last_pos["kernel"] = SizeOf(5)
  /\ Len(res.log) = 3
  /\ res.log[1].items = <<1, 2>>
  /\ res.log[3] = [op |-> "batch_sig_verify", items |-> <<5>>, n |-> SizeOf(5)]

\* three unpruned outputs out of four have been verified with their rangeproofs:
\* a full batch inside the loop and the remainder after it
RemainderFlushed ==
  /\ driver = "verify_rangeproofs"
  /\ ret.ok
  /\ Len(backend["output"].data) = 4
  /\ Len(res.log) = 2
  /\ Len(res.log[1].items) = 2
  /\ res.log[2].n = 0
  /\ Len(res.log[2].items) = 1

\* a rangeproof is missing for an unpruned output
RangeproofMissing ==
  /\ driver = "verify_rangeproofs"
  /\ ~ret.ok
  /\ ret.err.kind = "RangeproofNotFound"
  /\ Len(res.log) = 1

\* the leaf set names an output the data file does not hold
OutputMissing ==
  /\ driver = "verify_rangeproofs"
  /\ ~ret.ok
  /\ ret.err.kind = "OutputNotFound"

\* a kernel is missing below the size
KernelMissing ==
  /\ driver = "verify_kernel_signatures"
  /\ ~ret.ok
  /\ ret.err.kind = "TxKernelNotFound"
  /\ Len(res.log) = 2

\* four kernels: the second full batch leaves at the last leaf, and the call at the
\* last position passes no kernel
EmptyBatchAtLastPosition ==
  /\ driver = "verify_kernel_signatures"
  /\ ret.ok
  /\ Len(res.log) = 3
  /\ res.log[3].items = <<>>

(***************************************************************************)
(* Properties of the legacy fallback.                                      *)
(***************************************************************************)
\* the blocks this rewind step is to undo, from the head down
Undone == BlocksDown(child_batch.blocks, ext.head, res'.log[1].header)

\* this step is a rewind that is to undo a block stored without a spent index or
\* without a token spent index
LegacyRewound ==
  /\ RewoundBelowHead
  /\ \E k \in 1..Len(Undone) :
       \/ Undone[k] \notin DOMAIN child_batch.spent_index
       \/ Undone[k] \notin DOMAIN child_batch.token_spent_index

\* the first block to undo that has neither a spent index nor a legacy bitmap,
\* for its inputs or for its token inputs; 0 when there is none
FirstWithout ==
  LET bad == {k \in 1..Len(Undone) :
                \/ /\ Undone[k] \notin DOMAIN child_batch.spent_index
                   /\ Undone[k] \notin DOMAIN child_batch.input_bitmap
                \/ /\ Undone[k] \notin DOMAIN child_batch.token_spent_index
                   /\ Undone[k] \notin DOMAIN child_batch.token_input_bitmap}
  IN IF bad = {} THEN 0 ELSE SetMin(bad)

\* the positions to unprune for block h: those of its spent index, or of its
\* legacy input bitmap
ToUnprune(h) ==
  IF h \in DOMAIN child_batch.spent_index THEN SeqRange(PosOf(child_batch.spent_index[h]))
  ELSE child_batch.input_bitmap[h]

\* the step has logged the fallback
FallbackLogged == \E i \in 1..Len(res'.log) : res'.log[i].op = "warn"

\* the rewind has completed: the output leaves at or below the size of the target
\* are those that were unpruned and those the undone blocks had spent, by the
\* spent index or by the legacy bitmap
FellBack ==
  LET size == child_batch.blocks[res'.log[1].header].output_mmr_size
  IN /\ res'.ok
     /\ FallbackLogged
     /\ backend'["output"].leaf_set =
          {p \in backend["output"].leaf_set
                   \cup UNION {ToUnprune(Undone[k]) : k \in 1..Len(Undone)} : p <= size}
     /\ backend'["rproof"].leaf_set = backend'["output"].leaf_set
     /\ ext'.head = res'.log[1].header

\* the rewind has returned the Err of the store, at the block without a bitmap
RewindRefused ==
  /\ ~res'.ok
  /\ res'.err.kind = "StoreErr"
  /\ FallbackLogged
  /\ ext'.head = ext.head
  /\ Cardinality({i \in 1..Len(res'.log) : res'.log[i].op = "rewind_single_block"})
       = FirstWithout - 1

\* the union of the legacy bitmaps of the blocks above the horizon of the last
\* compact, the blocks without a bitmap skipped
LegacyAboveHorizon(bitmaps) ==
  UNION {bitmaps[x] :
           x \in {y \in Ancestors(batch.blocks, batch.head) :
                    /\ batch.blocks[y].height > batch.blocks[done.arg.horizon_header].height
                    /\ y \in DOMAIN bitmaps}}

\* compact has returned Ok, with the output backends compacted under the bitmaps
\* of the blocks that have one
SkippedAndCompacted ==
  driver = "compact" =>
    LET size == batch.blocks[done.arg.horizon_header].output_mmr_size
    IN /\ ret.ok
       /\ \A m \in {"output", "rproof"} :
            backend[m] = check_compact(pre.backend[m], size,
                                       LegacyAboveHorizon(batch.input_bitmap))

\* C34 as claimed: a rewind_single_block that finds no spent index for its block
\* falls back to the legacy input bitmap as the positions to unprune, and when
\* that bitmap is missing too the condition is logged and the rewind completes
\* without error; input_pos_to_rewind skips the blocks without a cached bitmap
\* and returns a bitmap
C34_MissingBitmapNonFatalAsClaimed ==
  /\ [][LegacyRewound => FellBack]_vars
  /\ []SkippedAndCompacted

\* C34: a rewind_single_block that finds no spent index for its block falls back
\* to the legacy input bitmap as the positions to unprune and logs the fallback;
\* when that bitmap is missing too it returns the Err of the store and the rewind
\* fails at that block; input_pos_to_rewind skips the blocks without a cached
\* bitmap and returns the union of the others
C34_MissingBitmap ==
  /\ [][LegacyRewound => IF FirstWithout = 0 THEN FellBack ELSE RewindRefused]_vars
  /\ []SkippedAndCompacted

\* a rewind over a block stored with a legacy bitmap and no spent index has
\* unpruned the output that block had spent
C34_Witness ==
  /\ res.op = "rewind"
  /\ res.ok
  /\ \E i \in 1..Len(res.log) : res.log[i].op = "warn"
  /\ pre.batch.head \notin DOMAIN pre.batch.spent_index
  /\ pre.batch.head \in DOMAIN pre.batch.input_bitmap
  /\ \E p \in pre.batch.input_bitmap[pre.batch.head] :
       /\ p \in backend["output"].leaf_set
       /\ p \notin pre.backend["output"].leaf_set

\* a rewind over a block stored with neither has returned the Err of the store
RefusedWithoutBitmap ==
  /\ res.op = "rewind"
  /\ ~res.ok
  /\ res.err.kind = "StoreErr"
  /\ pre.batch.head \notin DOMAIN pre.batch.spent_index
  /\ pre.batch.head \notin DOMAIN pre.batch.input_bitmap

\* compact has skipped a block above the horizon, stored with neither, and has
\* used the legacy bitmap of the head block
BitmapOfHeadUsedByCompact ==
  /\ driver = "compact"
  /\ ret.ok
  /\ \E y \in Ancestors(batch.blocks, batch.head) :
       /\ batch.blocks[y].height > batch.blocks[done.arg.horizon_header].height
       /\ y \notin DOMAIN batch.input_bitmap
       /\ y \notin DOMAIN batch.spent_index
  /\ LegacyAboveHorizon(batch.input_bitmap) # {}

\* compact has skipped the head block, stored with neither, and has pruned below
\* the horizon with an empty bitmap
BlockSkippedByCompact ==
  /\ driver = "compact"
  /\ ret.ok
  /\ batch.head \notin DOMAIN batch.input_bitmap
  /\ batch.head \notin DOMAIN batch.spent_index
  /\ batch.blocks[done.arg.horizon_header].height < batch.blocks[batch.head].height
  /\ backend["output"] # pre.backend["output"]
(***************************************************************************)
(* Properties of the header MMR under extending.                           *)
(***************************************************************************)
\* what the header handle serves: the data of each position up to its last_pos
HeaderView(b, lp) == [p \in 1..lp |-> get_data("header", b, lp, p)]

\* extending has returned from a call that ran its closure
AfterClosureOfExtending == AfterExtending /\ ret.err.kind # "Other"

\* the header MMR is as before the call: last_pos, files and what the handle
\* serves
HeaderMMRAsBefore ==
  /\ last_pos["header"] = pre.last_pos["header"]
  /\ disk["header"] = pre.disk["header"]
  /\ HeaderView(backend["header"], last_pos["header"])
       = HeaderView(pre.backend["header"], pre.last_pos["header"])

\* the header backend is discarded: it holds what its files hold
HeaderBackendDiscarded == backend["header"] = disk["header"]

\* a step that moves the header last_pos
HeaderCursorMoved == last_pos'["header"] # last_pos["header"]

\* C35: extending never changes the header MMR: whatever its closure did through
\* header_extension, and whether it returned Ok or Err, on return the header
\* backend is discarded and the header last_pos and contents are those before the
\* call; only header_extending moves the header last_pos
C35_ExtendingKeepsHeaderMMR ==
  /\ [](AfterExtending => HeaderMMRAsBefore)
  /\ [](AfterClosureOfExtending => HeaderBackendDiscarded)
  /\ [][HeaderCursorMoved => driver = "header_extending"]_vars

\* extending has committed after a closure that applied a header through
\* header_extension and returned Ok
C35_Witness ==
  /\ AfterExtending
  /\ ret.ok
  /\ committed
  /\ done.closure_ok
  /\ ~done.rollback
  /\ done.hsize > last_pos["header"]

\* extending has returned after a closure that rewound the header extension
HeaderRewoundUnderExtending ==
  /\ AfterExtending
  /\ done.hsize < last_pos["header"]

\* the header backend itself is as before the call when it held no more than its
\* files at the call
HeaderBackendAsBefore ==
  (AfterExtending /\ pre.backend["header"] = pre.disk["header"]) =>
    backend["header"] = pre.backend["header"]

\* extending has dropped from the header backend what a header_extending whose
\* commit failed had left in it
LeftoverDropped ==
  /\ AfterExtending
  /\ backend["header"] # pre.backend["header"]

(***************************************************************************)
(* Properties of the rollback flags under extending.                       *)
(***************************************************************************)
\* the commit branch has run to its end: the child batch is committed, the seven
\* data backends are synced and the seven cursors are the sizes of the extension
CommitBranchDone ==
  /\ committed
  /\ synced = DataSet
  /\ \A m \in DataSet : disk[m] = backend[m] /\ last_pos[m] = done.sizes[m]
  /\ bitmap_accumulator = done.acc

\* C36: in extending the choice between commit and rollback is made from the
\* closure's result and the rollback flag of the Extension alone: the rollback
\* flag of the HeaderExtension is never read, and a closure that calls
\* force_rollback on header_extension only and returns Ok has its child batch
\* committed and the seven data cursors advanced
C36_HeaderRollbackNotRead ==
  AfterClosureOfExtending =>
    /\ (done.closure_ok /\ ~done.rollback) =>
         /\ ret \in {NoRet, IoErr}
         /\ ret = NoRet => CommitBranchDone
    /\ (~done.closure_ok \/ done.rollback) => (Untouched /\ AllDiscarded)

\* extending has committed a block for a closure that called force_rollback on
\* header_extension only and returned Ok
C36_Witness ==
  /\ AfterExtending
  /\ done.closure_ok
  /\ done.hrollback
  /\ ~done.rollback
  /\ done.applied >= 1
  /\ ret = NoRet
  /\ committed
  /\ batch # pre.batch
  /\ last_pos["kernel"] > pre.last_pos["kernel"]

\* extending has rolled back for a closure that called force_rollback on both
\* extensions
BothFlagsSet == AfterExtending /\ done.hrollback /\ done.rollback /\ ~committed

(***************************************************************************)
(* Properties of the drivers over an empty header MMR.                     *)
(***************************************************************************)
\* the header MMR was empty when the driver was called
CalledOnEmptyHeaderMMR == pre.last_pos["header"] = 0

\* the driver has returned the Err of head_hash and has done nothing else
HeadHashErrReturned ==
  /\ ret = [ok |-> FALSE, err |-> [kind |-> "Other", c |-> 0]]
  /\ backend = pre.backend
  /\ Untouched
  /\ child_batch = EmptyBatch
  /\ ext = NoExt
  /\ done = NoDone

\* a step that calls header_extending
HeaderExtendingCalled == pc = "idle" /\ driver' = "header_extending" /\ calls' # calls

\* C37: extending and extending_readonly called with an empty header MMR return the
\* Err of head_hash without a call of the closure, without a child batch and
\* without a change of state; header_extending does not fail there and runs its
\* closure with Tip::default() as header head
C37_EmptyHeaderMMR ==
  /\ []((driver \in {"extending", "extending_readonly"} /\ CalledOnEmptyHeaderMMR) =>
          (pc = "idle" /\ HeadHashErrReturned))
  /\ []((driver = "header_extending" /\ pc = "closure" /\ CalledOnEmptyHeaderMMR /\ nops = 0) =>
          (ext.hhead = 0 /\ ext.hpos = 0 /\ child_batch = batch))
  /\ [][HeaderExtendingCalled => pc' = "closure"]_vars

\* extending has returned the Err of head_hash over a TxHashSet whose header MMR
\* is empty
C37_Witness ==
  /\ pc = "idle"
  /\ driver = "extending"
  /\ CalledOnEmptyHeaderMMR
  /\ ~ret.ok
  /\ ret.err.kind = "Other"

\* the same for extending_readonly
ReadonlyRefusedOnEmptyHeaderMMR ==
  /\ pc = "idle"
  /\ driver = "extending_readonly"
  /\ CalledOnEmptyHeaderMMR
  /\ ret.err.kind = "Other"

\* the closure of a header_extending called with an empty header MMR has applied
\* the genesis header
HeaderAppliedOnEmptyHeaderMMR ==
  /\ pc = "closure"
  /\ driver = "header_extending"
  /\ CalledOnEmptyHeaderMMR
  /\ res.op = "apply_header"
  /\ res.ok
  /\ ext.hpos > 0

(***************************************************************************)
(* Properties of the head of an Extension whose operation fails.           *)
(***************************************************************************)
\* a step in which the closure's call of op returns Err
OpFailed(op) == pc = "closure" /\ nops' = nops + 1 /\ res'.op = op /\ ~res'.ok

\* C38: when apply_block returns Err, at whichever step, the head of the Extension
\* is the one before the call and the accumulator has not been updated for the
\* block; when Extension::rewind returns Err the head is the one before the call
C38_HeadKeptOnErr ==
  /\ [][OpFailed("apply_block") => (ext'.head = ext.head /\ ext'.acc = ext.acc)]_vars
  /\ [][OpFailed("rewind") => ext'.head = ext.head]_vars

\* apply_block has returned Err after it had pushed an output of its block: the
\* output MMR of the extension is larger than the header of its head records
C38_Witness ==
  /\ pc = "closure"
  /\ res.op = "apply_block"
  /\ ~res.ok
  /\ ext.pos["output"] > child_batch.blocks[ext.head].output_mmr_size

\* rewind has returned Err after it had rewound a block: the output MMR of the
\* extension is smaller than the header of its head records
RewindFailedBelowHead ==
  /\ pc = "closure"
  /\ res.op = "rewind"
  /\ ~res.ok
  /\ ext.pos["output"] < child_batch.blocks[ext.head].output_mmr_size

\* apply_block has returned Err with the index of its batch changed
IndexChangedByFailedBlock ==
  /\ pc = "closure"
  /\ res.op = "apply_block"
  /\ ~res.ok
  /\ child_batch.output_pos # batch.output_pos

(***************************************************************************)
(* Properties of the unspent outputs and their index.                      *)
(***************************************************************************)
\* the positions of the unpruned leaves of MMR m, viewed at lp, that carry the
\* commitment c
LeavesOf(m, b, lp, c) ==
  {p \in b.leaf_set :
     LET Carries(d) == d.some /\ (IF m = "output" THEN d.v ELSE d.v.commit) = c
     IN Carries(get_data(m, b, lp, p))}

\* no two unpruned leaves carry one commitment, and each unpruned leaf is at the
\* position the index holds for its commitment
UniqueAndIndexed(m, b, lp, index) ==
  \A c \in Commits :
    /\ Cardinality(LeavesOf(m, b, lp, c)) <= 1
    /\ \A p \in LeavesOf(m, b, lp, c) : c \in DOMAIN index /\ index[c].pos = p

\* C39: from an empty TxHashSet with an empty index, after any sequence of
\* extending calls, committed or rolled back, whose closures apply blocks and
\* rewind, no two unpruned leaves of the output MMR carry the same commitment and
\* every unpruned output leaf is the one the index points to for its commitment;
\* the same for the token output MMR and its index
C39_UtxoUnique ==
  pc = "idle" =>
    /\ UniqueAndIndexed("output", backend["output"], last_pos["output"], batch.output_pos)
    /\ UniqueAndIndexed("token_output", backend["token_output"], last_pos["token_output"],
                        batch.token_output_pos)

\* the same in the extendings that no failed commit or sync preceded
UtxoUniqueWithoutIoFailure == fails = 0 => C39_UtxoUnique

\* the same of the views and the batch of a running extension that no failed
\* commit or sync preceded
UtxoUniqueInExtension ==
  (pc = "closure" /\ fails = 0) =>
    /\ UniqueAndIndexed("output", backend["output"], ext.pos["output"],
                        child_batch.output_pos)
    /\ UniqueAndIndexed("token_output", backend["token_output"], ext.pos["token_output"],
                        child_batch.token_output_pos)

\* two unpruned output leaves carry one commitment
TwoLeavesOfOneCommitment ==
  /\ pc = "idle"
  /\ \E c \in Commits :
       Cardinality(LeavesOf("output", backend["output"], last_pos["output"], c)) >= 2

\* a committed extending has left an unpruned output leaf and an unpruned token
\* output leaf, each at the position its index holds
LeavesIndexed ==
  /\ AfterExtending
  /\ committed
  /\ fails = 0
  /\ \E c \in Commits :
       LeavesOf("output", backend["output"], last_pos["output"], c) # {}
  /\ \E c \in Commits :
       LeavesOf("token_output", backend["token_output"], last_pos["token_output"], c) # {}
  /\ C39_UtxoUnique

====
